---- MODULE Spec2Model ----
(***************************************************************************)
(* Directory mapper (src/directory_mapper_gui.py): the recursive scan      *)
(* (scan_directory / walk_dir), the treemap bucketizer                      *)
(* (_group_sizes_for_treemap) and the squarify layout (treemap_rects).      *)
(*                                                                         *)
(* Strings the code inspects character by character (file names, relative  *)
(* POSIX paths, glob patterns, bucket labels) are sequences of one-char     *)
(* strings.  A Path is the sequence of names below the scanned root; the    *)
(* root itself is the empty sequence.                                       *)
(***************************************************************************)
EXTENDS Integers, Sequences, FiniteSets, TLC

VARIABLES
    fs,        \* the directory tree on disk: path -> [kind, size, link, fail]
    rootkind,  \* what the root path is: "dir", "locked", "file", "missing"
    out,       \* out_dir and the outcome of generate_outputs: same (out_dir is
               \* the root path), dir (out_dir exists), written (output
               \* files), raised (the exception), before (the root and
               \* out_dir as they were when generate_outputs was called)
    phase,     \* position in generate_outputs: "fs", "scanned", "grouped", "raised"
    options,   \* the ScanOptions of the scan
    scan,      \* the ScanResult, with events: the order in which the scan
               \* recorded files and assigned directory summaries
    depth,     \* report_options.treemap_depth
    largest_n, \* report_options.largest_files
    items,     \* the list returned by _group_sizes_for_treemap
    arith,     \* the arithmetic of the layout: "exact" or "float"
    sizes,     \* treemap_rects' argument sizes
    target,    \* treemap_rects' arguments x, y, w, h
    tpc,       \* position in treemap_rects: "idle", "call", "loop", "done"
    remaining, \* the local list remaining
    row,       \* the local list row
    rects,     \* the local list rects
    rem,       \* the locals x, y, w, h: the rectangle still to fill
    rows,      \* the row handed to each _layout_row call so far
    file_list,         \* merge_chunked: the files to merge, in order; the merger
                       \* window: self.file_list, absolute paths
    word_limit,        \* merge_chunked: the word limit
    mpc,               \* merge_chunked: "idle", "loop", "done"
    next_file,         \* merge_chunked: index of the next file of the loop
    chunks,            \* merge_chunked: the entries of each chunk
    chunk_word_counts, \* merge_chunked: the running word count of each chunk
    written,           \* merge_chunked: the text of each output file
    web,          \* crawl_and_save: url -> [links, status] of each page
    start_urls,   \* crawl_and_save: the seed URLs
    disk,         \* crawl_and_save: local file path -> content
    cpc,          \* crawl_and_save: "idle", "seed", "loop", "done"
    visited,      \* crawl_and_save: the set visited
    queue,        \* crawl_and_save: the deque queue
    saved_count,  \* crawl_and_save: saved_count
    popped,       \* crawl_and_save: every url popped so far, with whether
                  \* its HTML was obtained
    tree_depth,        \* _tree_lines: the argument depth
    tree_max_entries,  \* _tree_lines: the argument max_entries
    lines,             \* _tree_lines: the list returned
    listbox,      \* the merger window: the rows of the Listbox
    selection,    \* the merger window: listbox.curselection(), as a set
    last_op       \* the merger window: the handler that ran last, with the
                  \* list and the selection it found

svars == <<fs, rootkind, out, phase, options, scan, depth, largest_n, items>>
tvars == <<arith, sizes, target, tpc, remaining, row, rects, rem, rows>>
mvars == <<file_list, word_limit, mpc, next_file, chunks, chunk_word_counts,
           written>>
cvars == <<web, start_urls, disk, cpc, visited, queue, saved_count, popped>>
rvars == <<tree_depth, tree_max_entries, lines>>
lvars == <<listbox, selection, last_op>>
vars == <<svars, tvars, mvars, cvars, rvars, lvars>>

(***************************************************************************)
(* Bounds of the model.                                                    *)
(***************************************************************************)
MaxEntries == 3
MaxGroupDepth == 2

\* File names on disk, in the order a directory listing returns them.
NameOrder == << <<"a">>, <<"b", ".", "T">>, <<".", "h">> >>
Names == {NameOrder[i] : i \in 1..Len(NameOrder)}
\* The names in use below the root's own entries.
NestedNames == { <<"a">>, <<".", "h">> }
NamesIn(parent) == IF parent = <<>> THEN Names ELSE NestedNames
FileSizes == {0, 1, 2}
\* The files on disk: a regular file of any of the sizes, or a symbolic link
\* to a one-byte file.
FileShapes ==
    {[size |-> s, link |-> FALSE, fail |-> "none"] : s \in FileSizes}
        \cup {[size |-> 1, link |-> TRUE, fail |-> "none"]}
\* The same with the entries the walk fails on: a file whose stat raises and
\* an entry whose is_file raises.
FaultyFileShapes ==
    {[size |-> s, link |-> FALSE, fail |-> "none"] : s \in FileSizes \ {0}}
        \cup {[size |-> 1, link |-> TRUE, fail |-> "none"],
              [size |-> 1, link |-> FALSE, fail |-> "stat"],
              [size |-> 1, link |-> FALSE, fail |-> "inspect"]}
\* Directories: real or reached through a link, and one that cannot be listed.
DirShapes == {[link |-> l, fail |-> "none"] : l \in BOOLEAN}
FaultyDirShapes == DirShapes \cup {[link |-> FALSE, fail |-> "list"]}
\* The ignore_globs tuples a scan is run with.
GlobChoices == { <<>>, << <<"*", "a">> >> }

Root == <<>>

(***************************************************************************)
(* Generic helpers.                                                        *)
(***************************************************************************)
RECURSIVE SumSeq(_)
SumSeq(s) == IF s = <<>> THEN 0 ELSE Head(s) + SumSeq(Tail(s))

RECURSIVE SumOver(_, _)
\* Sum of f[x] over the finite set S (f a function on S).
SumOver(S, f) ==
    IF S = {} THEN 0
    ELSE LET x == CHOOSE y \in S : TRUE IN f[x] + SumOver(S \ {x}, f)

Last(s) == s[Len(s)]
Parent(p) == SubSeq(p, 1, Len(p) - 1)

(***************************************************************************)
(* Path and glob primitives.                                               *)
(***************************************************************************)
_is_probably_hidden(path) == Head(Last(path)) = "."

RECURSIVE _safe_rel_posix(_)
\* child.relative_to(root).as_posix(): the names joined by "/".
_safe_rel_posix(path) ==
    IF Len(path) = 0 THEN <<".">>
    ELSE IF Len(path) = 1 THEN path[1]
    ELSE _safe_rel_posix(Parent(path)) \o <<"/">> \o Last(path)

RECURSIVE fnmatch(_, _)
\* fnmatch.fnmatch: "*" matches any run of characters ("/" included),
\* "?" any one character, every other character itself.
fnmatch(name, pat) ==
    IF pat = <<>> THEN name = <<>>
    ELSE IF Head(pat) = "*"
         THEN fnmatch(name, Tail(pat))
              \/ (name # <<>> /\ fnmatch(Tail(name), pat))
    ELSE IF name = <<>> THEN FALSE
    ELSE (Head(pat) = "?" \/ Head(pat) = Head(name))
         /\ fnmatch(Tail(name), Tail(pat))

_matches_any_glob(rel_posix, globs) ==
    \E i \in 1..Len(globs) : fnmatch(rel_posix, globs[i])

(***************************************************************************)
(* The directory tree.                                                     *)
(***************************************************************************)
\* os.scandir(path) / Path.iterdir(): the entries directly inside path.
ScanDir(tree, path) ==
    LET present(n) == Append(path, n) \in DOMAIN tree
        pick == SelectSeq(NameOrder, present)
    IN  [i \in 1..Len(pick) |-> Append(path, pick[i])]

\* A directory whose entries can be listed.
IsDirPath(tree, p) ==
    \/ (p = Root /\ rootkind = "dir")
    \/ (p \in DOMAIN tree /\ tree[p].kind = "dir" /\ tree[p].fail = "none")

CreateFile(parent, name, f) ==
    /\ phase = "fs"
    /\ Cardinality(DOMAIN fs) < MaxEntries
    /\ IsDirPath(fs, parent)
    /\ Append(parent, name) \notin DOMAIN fs
    /\ fs' = fs @@ (Append(parent, name) :>
                      [kind |-> "file", size |-> f.size, link |-> f.link,
                       fail |-> f.fail])
    /\ UNCHANGED <<rootkind, out, phase, options, scan, depth, largest_n, items, tvars, mvars, cvars, rvars, lvars>>

CreateDir(parent, name, d) ==
    /\ phase = "fs"
    /\ Cardinality(DOMAIN fs) < MaxEntries
    /\ IsDirPath(fs, parent)
    /\ Append(parent, name) \notin DOMAIN fs
    /\ fs' = fs @@ (Append(parent, name) :>
                      [kind |-> "dir", size |-> 0, link |-> d.link,
                       fail |-> d.fail])
    /\ UNCHANGED <<rootkind, out, phase, options, scan, depth, largest_n, items, tvars, mvars, cvars, rvars, lvars>>

(***************************************************************************)
(* scan_directory.                                                         *)
(***************************************************************************)
ScanOptions ==
    [follow_symlinks : BOOLEAN, include_hidden : BOOLEAN,
     ignore_globs : GlobChoices]

\* should_skip without the hidden-name test.
should_skip_globs_only(opts, path) ==
    _matches_any_glob(_safe_rel_posix(path), opts.ignore_globs)

\* should_skip without the glob test.
should_skip_hidden_only(opts, path) ==
    ~opts.include_hidden /\ _is_probably_hidden(path)

should_skip(opts, path) ==
    \/ _matches_any_glob(_safe_rel_posix(path), opts.ignore_globs)
    \/ (~opts.include_hidden /\ _is_probably_hidden(path))

\* The symbolic-link test of walk_dir that follows every link.
skips_link_never(opts, e) == FALSE

\* is_symlink and not options.follow_symlinks
skips_link(opts, e) == e.link /\ ~opts.follow_symlinks

\* dict[key] = value on an insertion-ordered dict kept as a sequence of
\* [key, val] pairs: an existing key keeps its position.
DictSet(d, key, val) ==
    IF \E i \in 1..Len(d) : d[i].key = key
    THEN [i \in 1..Len(d) |->
            IF d[i].key = key THEN [key |-> key, val |-> val] ELSE d[i]]
    ELSE Append(d, [key |-> key, val |-> val])

DictHas(d, key) == \E i \in 1..Len(d) : d[i].key = key
DictGet(d, key) == d[CHOOSE i \in 1..Len(d) : d[i].key = key].val

DirSummary(path, size, files, dirs) ==
    [path |-> path, size_bytes |-> size, file_count |-> files,
     dir_count |-> dirs]

\* str.lower() over the characters file names are made of.
lower(s) == [i \in 1..Len(s) |-> IF s[i] = "T" THEN "t" ELSE s[i]]

\* The last "." of a name, 0 when it has none.
LastDot(name) ==
    LET dots == {i \in 1..Len(name) : name[i] = "."}
    IN  IF dots = {} THEN 0 ELSE CHOOSE i \in dots : \A j \in dots : j <= i

\* Path.suffix: from the last "." on, unless that "." starts or ends the name.
suffix(path) ==
    LET name == Last(path)
        i == LastDot(name)
    IN  IF 1 < i /\ i < Len(name) THEN SubSeq(name, i, Len(name)) ELSE <<>>

NoExt == <<"<", "n", "o", "-", "e", "x", "t", ">">>

\* dict.get(key, default)
DictGetOr(d, key, default) == IF DictHas(d, key) THEN DictGet(d, key) ELSE default

\* record_file that sets the count of the extension to one.
record_file_count_reset(st, path, size) ==
    LET low == lower(suffix(path))
        ext == IF low = <<>> THEN NoExt ELSE low
    IN  [st EXCEPT
           !.ext_bytes = DictSet(@, ext, DictGetOr(@, ext, 0) + size),
           !.ext_counts = DictSet(@, ext, 1),
           !.largest = Append(@, [path |-> path, size_bytes |-> size]),
           !.events = Append(@, [what |-> "file", path |-> path])]

record_file(st, path, size) ==
    LET low == lower(suffix(path))
        ext == IF low = <<>> THEN NoExt ELSE low
    IN  [st EXCEPT
           !.ext_bytes = DictSet(@, ext, DictGetOr(@, ext, 0) + size),
           !.ext_counts = DictSet(@, ext, DictGetOr(@, ext, 0) + 1),
           !.largest = Append(@, [path |-> path, size_bytes |-> size]),
           !.events = Append(@, [what |-> "file", path |-> path])]

\* The assignment keyed by the directory above path.
insert_summary_by_parent(st, path, summary) ==
    LET key == IF path = <<>> THEN path ELSE SubSeq(path, 1, Len(path) - 1)
    IN  [st EXCEPT !.dir_summaries = DictSet(@, key, summary),
                   !.events = Append(@, [what |-> "dir", path |-> key,
                                         summary |-> summary])]

\* dir_summaries[path] = summary; events keeps the order in which the scan
\* records files and assigns summaries.
insert_summary(st, path, summary) ==
    [st EXCEPT !.dir_summaries = DictSet(@, path, summary),
               !.events = Append(@, [what |-> "dir", path |-> path,
                                     summary |-> summary])]

\* One warning of the errors list: what failed, and on which path.
Warning(what, path) == [what |-> what, path |-> path]

\* os.scandir(path) raises.
ListingFails(tree, path) ==
    IF path = Root THEN rootkind = "locked" ELSE tree[path].fail = "list"

RECURSIVE walk_dir(_, _, _, _), WalkEntries(_, _, _, _, _, _)
\* A walk_dir that assigns the directory's summary before it walks the
\* entries and again when they are done.
walk_dir_preorder(tree, opts, path, st) ==
    IF ListingFails(tree, path)
    THEN LET summary == DirSummary(path, 0, 0, 0)
         IN  [summary |-> summary,
              st |-> insert_summary(
                        [st EXCEPT !.errors = Append(@, Warning("list", path))],
                        path, summary)]
    ELSE
    LET r == WalkEntries(tree, opts, path, ScanDir(tree, path),
                         [size_total |-> 0, file_count |-> 0, dir_count |-> 0],
                         insert_summary(st, path, DirSummary(path, 0, 0, 0)))
        summary == DirSummary(path, r.loc.size_total, r.loc.file_count,
                              r.loc.dir_count)
    IN  [summary |-> summary, st |-> insert_summary(r.st, path, summary)]

\* The for loop of walk_dir over the listed entries; loc holds the locals
\* size_total, file_count, dir_count and st the enclosing scan's
\* dir_summaries, largest, ext_bytes, ext_counts and errors.
WalkEntries(tree, opts, path, entries, loc, st) ==
    IF entries = <<>> THEN [loc |-> loc, st |-> st]
    ELSE
      LET child == Head(entries)
          rest  == Tail(entries)
          e     == tree[child]
      IN
        IF should_skip(opts, child)
          THEN WalkEntries(tree, opts, path, rest, loc, st)
        ELSE IF skips_link(opts, e)
          THEN WalkEntries(tree, opts, path, rest, loc, st)
        ELSE IF e.fail = "inspect"
          THEN WalkEntries(tree, opts, path, rest, loc,
                 [st EXCEPT !.errors = Append(@, Warning("inspect", child))])
        ELSE IF e.kind = "file"
          THEN IF e.fail = "stat"
               THEN WalkEntries(tree, opts, path, rest, loc,
                      [st EXCEPT !.errors = Append(@, Warning("stat", child))])
               ELSE WalkEntries(tree, opts, path, rest,
                      [loc EXCEPT !.size_total = @ + e.size,
                                  !.file_count = @ + 1],
                      record_file(st, child, e.size))
        ELSE
          LET r == walk_dir(tree, opts, child, st)
          IN  WalkEntries(tree, opts, path, rest,
                 [size_total |-> loc.size_total + r.summary.size_bytes,
                  file_count |-> loc.file_count + r.summary.file_count,
                  dir_count  |-> loc.dir_count + 1 + r.summary.dir_count],
                 r.st)

walk_dir(tree, opts, path, st) ==
    IF ListingFails(tree, path)
    THEN LET summary == DirSummary(path, 0, 0, 0)
         IN  [summary |-> summary,
              st |-> insert_summary(
                        [st EXCEPT !.errors = Append(@, Warning("list", path))],
                        path, summary)]
    ELSE
    LET r == WalkEntries(tree, opts, path, ScanDir(tree, path),
                         [size_total |-> 0, file_count |-> 0, dir_count |-> 0],
                         st)
        summary == DirSummary(path, r.loc.size_total, r.loc.file_count,
                              r.loc.dir_count)
    IN  [summary |-> summary, st |-> insert_summary(r.st, path, summary)]

RECURSIVE StableInsertFirst(_, _)
\* The sort step that puts an element before the elements of its own key.
StableInsertFirst(sorted, it) ==
    IF sorted = <<>> THEN <<it>>
    ELSE IF Head(sorted).k > it.k
         THEN <<Head(sorted)>> \o StableInsertFirst(Tail(sorted), it)
         ELSE <<it>> \o sorted

RECURSIVE StableInsert(_, _)
\* One step of sorted(..., reverse=True): the element goes behind every
\* element whose key is at least its own.
StableInsert(sorted, it) ==
    IF sorted = <<>> THEN <<it>>
    ELSE IF Head(sorted).k >= it.k
         THEN <<Head(sorted)>> \o StableInsert(Tail(sorted), it)
         ELSE <<it>> \o sorted

RECURSIVE StableSortFrom(_, _)
StableSortFrom(todo, sorted) ==
    IF todo = <<>> THEN sorted
    ELSE StableSortFrom(Tail(todo), StableInsert(sorted, Head(todo)))

\* sorted(seq, key=..., reverse=True) over elements [k, v]: the values, by
\* key in non-increasing order, equal keys in their order in seq.
SortedDesc(keyed) ==
    LET s == StableSortFrom(keyed, <<>>)
    IN  [i \in 1..Len(s) |-> s[i].v]

\* seq[:n]
Take(seq, n) == SubSeq(seq, 1, IF n < Len(seq) THEN n ELSE Len(seq))

\* largest_sorted without the [: max(0, largest_files)] cut.
largest_sorted_uncut(largest, largest_files) ==
    SortedDesc([i \in 1..Len(largest) |->
                  [k |-> largest[i].size_bytes, v |-> largest[i]]])

largest_sorted(largest, largest_files) ==
    Take(SortedDesc([i \in 1..Len(largest) |->
                       [k |-> largest[i].size_bytes, v |-> largest[i]]]),
         IF largest_files > 0 THEN largest_files ELSE 0)

\* dict(sorted(d.items(), key=lambda kv: kv[1], reverse=True))
SortedByValue(d) == SortedDesc([i \in 1..Len(d) |-> [k |-> d[i].val, v |-> d[i]]])

scan_directory(tree, opts, largest_files) ==
    LET r == walk_dir(tree, opts, Root,
                      [dir_summaries |-> <<>>, largest |-> <<>>,
                       ext_bytes |-> <<>>, ext_counts |-> <<>>,
                       errors |-> <<>>, events |-> <<>>])
    IN  [total_size_bytes |-> r.summary.size_bytes,
         total_file_count |-> r.summary.file_count,
         total_dir_count  |-> r.summary.dir_count,
         extension_bytes  |-> SortedByValue(r.st.ext_bytes),
         extension_counts |-> SortedByValue(r.st.ext_counts),
         largest_files    |-> largest_sorted(r.st.largest, largest_files),
         dir_summaries    |-> r.st.dir_summaries,
         errors           |-> r.st.errors,
         events           |-> r.st.events]

NoOptions ==
    [follow_symlinks |-> FALSE, include_hidden |-> FALSE, ignore_globs |-> <<>>]
NoScan ==
    [total_size_bytes |-> 0, total_file_count |-> 0, total_dir_count |-> 0,
     extension_bytes |-> <<>>, extension_counts |-> <<>>,
     largest_files |-> <<>>, dir_summaries |-> <<>>, errors |-> <<>>,
     events |-> <<>>]
NoOutput ==
    [same |-> FALSE, dir |-> FALSE, written |-> {}, raised |-> "none",
     before |-> [root |-> "dir", dir |-> FALSE]]

\* The --largest-files default of the command line and the GUI.
DefaultLargestFiles == 30

\* out_dir.mkdir(parents=True, exist_ok=True): what the root path is after
\* it, out_dir being the root path itself or some other path.
AfterMkdir == IF out.same /\ rootkind = "missing" THEN "dir" ELSE rootkind

\* generate_outputs up to the scan, on a root that scan_directory accepts:
\* out_dir is made, then the tree is scanned.
Scan(opts, largest_files) ==
    /\ phase = "fs"
    /\ AfterMkdir \in {"dir", "locked"}
    /\ rootkind' = AfterMkdir
    /\ out' = [out EXCEPT !.dir = TRUE,
                          !.before = [root |-> rootkind, dir |-> out.dir]]
    /\ options' = opts
    /\ largest_n' = largest_files
    /\ scan' = scan_directory(fs, opts, largest_files)
    /\ phase' = "scanned"
    /\ UNCHANGED <<fs, depth, items, tvars, mvars, cvars, rvars, lvars>>

\* generate_outputs on a root that is missing or not a directory: mkdir
\* raises FileExistsError when out_dir is the root and the root is a file;
\* otherwise out_dir is made and scan_directory raises.
ScanRaises ==
    /\ phase = "fs"
    /\ AfterMkdir \in {"file", "missing"}
    /\ out' = IF out.same
              THEN [out EXCEPT !.raised = "FileExistsError",
                               !.before = [root |-> rootkind, dir |-> out.dir]]
              ELSE [out EXCEPT !.dir = TRUE,
                               !.raised = IF rootkind = "missing"
                                          THEN "FileNotFoundError"
                                          ELSE "NotADirectoryError",
                               !.before = [root |-> rootkind, dir |-> out.dir]]
    /\ phase' = "raised"
    /\ UNCHANGED <<fs, rootkind, options, scan, depth, largest_n, items, tvars, mvars, cvars, rvars, lvars>>

(***************************************************************************)
(* _group_sizes_for_treemap.                                               *)
(***************************************************************************)
\* The "/·files" suffix of a direct-files bucket.
DirectFilesSuffix == <<"/", "·", "f", "i", "l", "e", "s">>
SubtreeSuffix == <<"/">>

TreemapItem(label, size) == [label |-> label, size |-> size]

RECURSIVE ChildSumFrom(_, _)
\* child_sum[dir_path]: the size_bytes of the summaries whose parent is
\* dir_path, the root's own summary left out.
ChildSumFrom(sums, dir_path) ==
    IF sums = <<>> THEN 0
    ELSE (IF Head(sums).key # Root /\ Parent(Head(sums).key) = dir_path
          THEN Head(sums).val.size_bytes ELSE 0)
         + ChildSumFrom(Tail(sums), dir_path)

child_sum(sc, dir_path) == ChildSumFrom(sc.dir_summaries, dir_path)

add_bucket(grouped, label, size) ==
    IF size <= 0 THEN grouped
    ELSE IF DictHas(grouped, label)
         THEN DictSet(grouped, label, DictGet(grouped, label) + size)
         ELSE DictSet(grouped, label, size)

RECURSIVE RootFileBucketsNoLinks(_, _, _)
\* Step 1 with is_file(follow_symlinks=False): links get no bucket.
RootFileBucketsNoLinks(tree, entries, grouped) ==
    IF entries = <<>> THEN grouped
    ELSE LET child == Head(entries) IN
         RootFileBucketsNoLinks(tree, Tail(entries),
             IF tree[child].kind = "file" /\ ~tree[child].link
             THEN add_bucket(grouped, Last(child), tree[child].size)
             ELSE grouped)

RECURSIVE RootFileBuckets(_, _, _)
\* Step 1: every child of the root that is a file (is_file and stat follow
\* symbolic links) gets a bucket under its own name.
RootFileBuckets(tree, entries, grouped) ==
    IF entries = <<>> THEN grouped
    ELSE LET child == Head(entries) IN
         RootFileBuckets(tree, Tail(entries),
             IF tree[child].kind = "file"
             THEN add_bucket(grouped, Last(child), tree[child].size)
             ELSE grouped)

\* direct_files without the subtraction of the child directories.
direct_files_recursive(sc, summ) == summ.size_bytes

\* direct_files of one summary, clamped at 0.
direct_files(sc, summ) ==
    LET d == summ.size_bytes - child_sum(sc, summ.path)
    IN  IF d < 0 THEN 0 ELSE d

\* Step 2 with rel_depth <= depth as the test for a direct-files bucket.
DirBucketInclusive(sc, D, summ, grouped) ==
    LET rel == summ.path
        rel_depth == Len(rel)
    IN  IF rel = Root THEN grouped
        ELSE IF D <= 0 \/ rel_depth <= D
          THEN add_bucket(grouped, _safe_rel_posix(rel) \o DirectFilesSuffix,
                          summ.size_bytes - child_sum(sc, summ.path))
        ELSE grouped

\* Step 2 with the boundary directory sized by its direct files only.
DirBucketDirectAtDepth(sc, D, summ, grouped) ==
    LET rel == summ.path
        rel_depth == Len(rel)
        direct == summ.size_bytes - child_sum(sc, summ.path)
    IN  IF rel = Root THEN grouped
        ELSE IF D <= 0 \/ rel_depth < D
          THEN add_bucket(grouped, _safe_rel_posix(rel) \o DirectFilesSuffix,
                          direct)
        ELSE IF rel_depth = D
          THEN add_bucket(grouped, _safe_rel_posix(rel) \o SubtreeSuffix,
                          direct)
        ELSE grouped

\* Step 2, one iteration of the loop over dir_summaries.
DirBucket(sc, D, summ, grouped) ==
    LET rel == summ.path
        rel_depth == Len(rel)
    IN  IF rel = Root THEN grouped
        ELSE IF D <= 0
          THEN add_bucket(grouped, _safe_rel_posix(rel) \o DirectFilesSuffix,
                          direct_files(sc, summ))
        ELSE IF rel_depth < D
          THEN add_bucket(grouped, _safe_rel_posix(rel) \o DirectFilesSuffix,
                          direct_files(sc, summ))
        ELSE IF rel_depth = D
          THEN add_bucket(grouped, _safe_rel_posix(rel) \o SubtreeSuffix,
                          summ.size_bytes)
        ELSE grouped

RECURSIVE DirBuckets(_, _, _, _)
DirBuckets(sc, D, sums, grouped) ==
    IF sums = <<>> THEN grouped
    ELSE DirBuckets(sc, D, Tail(sums), DirBucket(sc, D, Head(sums).val, grouped))

\* The dict grouped when the two steps are over, in insertion order.
GroupedBuckets(tree, sc, D) ==
    DirBuckets(sc, D, sc.dir_summaries,
               RootFileBuckets(tree, ScanDir(tree, Root), <<>>))

RECURSIVE InsertDescUnstable(_, _)
\* The sort step that puts an item before the items of its own size.
InsertDescUnstable(sorted, it) ==
    IF sorted = <<>> THEN <<it>>
    ELSE IF Head(sorted).size > it.size
         THEN <<Head(sorted)>> \o InsertDescUnstable(Tail(sorted), it)
         ELSE <<it>> \o sorted

RECURSIVE InsertDesc(_, _)
\* One step of a stable descending sort: it goes behind every item at least
\* as large.
InsertDesc(sorted, it) ==
    IF sorted = <<>> THEN <<it>>
    ELSE IF Head(sorted).size >= it.size
         THEN <<Head(sorted)>> \o InsertDesc(Tail(sorted), it)
         ELSE <<it>> \o sorted

RECURSIVE SortDescFrom(_, _)
SortDescFrom(sorted, rest) ==
    IF rest = <<>> THEN sorted
    ELSE SortDescFrom(InsertDesc(sorted, Head(rest)), Tail(rest))

\* items.sort(key=lambda it: it.size, reverse=True)
SortBySizeDesc(its) == SortDescFrom(<<>>, its)

_group_sizes_for_treemap(tree, sc, D) ==
    LET grouped == GroupedBuckets(tree, sc, D)
        positive(kv) == kv.val > 0
        kept == SelectSeq(grouped, positive)
    IN  SortBySizeDesc([i \in 1..Len(kept) |->
                          TreemapItem(kept[i].key, kept[i].val)])

\* The rest of generate_outputs: the buckets are computed, then the treemap
\* and the report are written into out_dir.
Group(D) ==
    /\ phase = "scanned"
    /\ depth' = D
    /\ items' = _group_sizes_for_treemap(fs, scan, D)
    /\ out' = [out EXCEPT !.written = {"svg", "md"}]
    /\ phase' = "grouped"
    /\ UNCHANGED <<fs, rootkind, options, scan, largest_n, tvars, mvars, cvars, rvars, lvars>>

(***************************************************************************)
(* Numbers of the layout engine.  The code computes in Python floats       *)
(* (IEEE-754 binary64: every operation returns the exact result rounded to *)
(* the nearest value with a 53-bit significand, ties to even).  A number   *)
(* is kept as a fraction [n, d] in lowest terms; under arith = "exact" no  *)
(* operation rounds, under arith = "float" every operation rounds to a     *)
(* significand of MantissaBits bits.  float("inf") is the fraction 1/0.    *)
(***************************************************************************)
MaxLen == 3
MaxWeight == 3
MaxSide == 3
MantissaBits == 5

Abs(i) == IF i < 0 THEN -i ELSE i

RECURSIVE GCD(_, _)
GCD(a, b) == IF b = 0 THEN a ELSE GCD(b, a % b)

\* The fraction n/d (d # 0) in lowest terms, denominator positive.
Q(n, d) ==
    LET g == GCD(Abs(n), Abs(d))
        sgn == IF d < 0 THEN -1 ELSE 1
    IN  [n |-> sgn * (n \div g), d |-> sgn * (d \div g)]

QInt(i) == [n |-> i, d |-> 1]
Zero == QInt(0)
Inf == [n |-> 1, d |-> 0]
QAdd(a, b) == Q(a.n * b.d + b.n * a.d, a.d * b.d)
QSub(a, b) == Q(a.n * b.d - b.n * a.d, a.d * b.d)
QMul(a, b) == Q(a.n * b.n, a.d * b.d)
QDiv(a, b) == Q(a.n * b.d, a.d * b.n)
QLt(a, b) == a.n * b.d < b.n * a.d
QLe(a, b) == a.n * b.d <= b.n * a.d
QMin(a, b) == IF QLt(b, a) THEN b ELSE a
QMax(a, b) == IF QLt(a, b) THEN b ELSE a
\* a > b where either side may be float("inf").
FGt(a, b) ==
    IF a = Inf THEN b # Inf ELSE IF b = Inf THEN FALSE ELSE QLt(b, a)

RECURSIVE Pow2(_)
Pow2(k) == IF k = 0 THEN 1 ELSE 2 * Pow2(k - 1)

\* a/b (a >= 0, b > 0) rounded to the nearest integer, ties to even.
RoundHalfEven(a, b) ==
    LET fl == a \div b
        r2 == 2 * (a % b)
    IN  IF r2 < b THEN fl ELSE IF r2 > b THEN fl + 1 ELSE fl + (fl % 2)

RECURSIVE RoundPos(_, _)
\* n/d > 0 rounded to MantissaBits significant bits.
RoundPos(n, d) ==
    IF n >= Pow2(MantissaBits) * d
      THEN QMul(QInt(2), RoundPos(n, 2 * d))
    ELSE IF n < Pow2(MantissaBits - 1) * d
      THEN QDiv(RoundPos(2 * n, d), QInt(2))
    ELSE QInt(RoundHalfEven(n, d))

RoundFloat(q) ==
    IF q.n = 0 THEN q
    ELSE IF q.n < 0 THEN QSub(Zero, RoundPos(-q.n, q.d))
    ELSE RoundPos(q.n, q.d)

\* The result of one arithmetic operation, as the arithmetic delivers it.
Rnd(q) == IF arith = "exact" THEN q ELSE RoundFloat(q)

fadd(a, b) == Rnd(QAdd(a, b))
fsub(a, b) == Rnd(QSub(a, b))
fmul(a, b) == Rnd(QMul(a, b))
fdiv(a, b) == Rnd(QDiv(a, b))
\* float(i) of an int.
ToFloat(i) == Rnd(QInt(i))

RECURSIVE PySumFrom(_, _)
PySumFrom(acc, s) ==
    IF s = <<>> THEN acc ELSE PySumFrom(fadd(acc, Head(s)), Tail(s))
\* sum(s): the elements added to 0 from left to right.
PySum(s) == PySumFrom(Zero, s)

RECURSIVE SeqMax(_)
SeqMax(s) == IF Len(s) = 1 THEN s[1] ELSE QMax(Head(s), SeqMax(Tail(s)))
RECURSIVE SeqMin(_)
SeqMin(s) == IF Len(s) = 1 THEN s[1] ELSE QMin(Head(s), SeqMin(Tail(s)))

Rect(x, y, w, h) == [x |-> x, y |-> y, w |-> w, h |-> h]

(***************************************************************************)
(* treemap_rects and its helpers.                                          *)
(***************************************************************************)
\* _normalize_sizes that returns the sizes as given.
_normalize_sizes_unscaled(szs, width, height) == szs

_normalize_sizes(szs, width, height) ==
    LET total == PySum(szs) IN
    IF QLe(total, Zero) THEN [i \in 1..Len(szs) |-> Zero]
    ELSE LET factor == fdiv(fmul(width, height), total)
         IN  [i \in 1..Len(szs) |-> fmul(szs[i], factor)]

\* _worst_ratio with the first of the two ratios only.
_worst_ratio_widest_only(rw, side) ==
    IF rw = <<>> \/ QLe(side, Zero) THEN Inf
    ELSE LET s  == PySum(rw)
             mx == SeqMax(rw)
         IN  IF QLe(SeqMin(rw), Zero) THEN Inf
             ELSE fdiv(fmul(fmul(side, side), mx), fmul(s, s))

_worst_ratio(rw, side) ==
    IF rw = <<>> \/ QLe(side, Zero) THEN Inf
    ELSE LET s  == PySum(rw)
             mx == SeqMax(rw)
             mn == SeqMin(rw)
         IN  IF QLe(mn, Zero) THEN Inf
             ELSE LET side2 == fmul(side, side)
                  IN  QMax(fdiv(fmul(side2, mx), fmul(s, s)),
                           fdiv(fmul(s, s), fmul(side2, mn)))

RECURSIVE HStripsStacked(_, _, _, _)
\* The strips of a horizontal slice, every one starting at cx.
HStripsStacked(rw, cx, y, row_h) ==
    IF rw = <<>> THEN <<>>
    ELSE LET wid == IF QLt(Zero, row_h) THEN fdiv(Head(rw), row_h) ELSE Zero
         IN  <<Rect(cx, y, wid, row_h)>>
               \o HStripsStacked(Tail(rw), cx, y, row_h)

RECURSIVE HStrips(_, _, _, _)
\* The strips of a horizontal slice, from cx rightwards.
HStrips(rw, cx, y, row_h) ==
    IF rw = <<>> THEN <<>>
    ELSE LET wid == IF QLt(Zero, row_h) THEN fdiv(Head(rw), row_h) ELSE Zero
         IN  <<Rect(cx, y, wid, row_h)>>
               \o HStrips(Tail(rw), fadd(cx, wid), y, row_h)

RECURSIVE VStrips(_, _, _, _)
\* The strips of a vertical slice, from cy downwards.
VStrips(rw, x, cy, row_w) ==
    IF rw = <<>> THEN <<>>
    ELSE LET hgt == IF QLt(Zero, row_w) THEN fdiv(Head(rw), row_w) ELSE Zero
         IN  <<Rect(x, cy, row_w, hgt)>>
               \o VStrips(Tail(rw), x, fadd(cy, hgt), row_w)

\* _layout_row that hands back the rectangle it was given.
_layout_row_no_advance(rw, x, y, w, h) ==
    LET s == PySum(rw) IN
    IF QLe(h, w)
    THEN LET row_h == IF QLt(Zero, w) THEN fdiv(s, w) ELSE Zero
         IN  [rects |-> HStrips(rw, x, y, row_h), rem |-> Rect(x, y, w, h)]
    ELSE LET row_w == IF QLt(Zero, h) THEN fdiv(s, h) ELSE Zero
         IN  [rects |-> VStrips(rw, x, y, row_w), rem |-> Rect(x, y, w, h)]

\* _layout_row that puts the row along the shorter side of the rectangle.
_layout_row_short_side(rw, x, y, w, h) ==
    LET s == PySum(rw) IN
    IF QLe(h, w)
    THEN LET row_w == IF QLt(Zero, h) THEN fdiv(s, h) ELSE Zero
         IN  [rects |-> VStrips(rw, x, y, row_w),
              rem   |-> Rect(fadd(x, row_w), y, fsub(w, row_w), h)]
    ELSE LET row_h == IF QLt(Zero, w) THEN fdiv(s, w) ELSE Zero
         IN  [rects |-> HStrips(rw, x, y, row_h),
              rem   |-> Rect(x, fadd(y, row_h), w, fsub(h, row_h))]

\* Returns the row's rectangles and the rectangle left over.
_layout_row(rw, x, y, w, h) ==
    LET s == PySum(rw) IN
    IF QLe(h, w)
    THEN LET row_h == IF QLt(Zero, w) THEN fdiv(s, w) ELSE Zero
         IN  [rects |-> HStrips(rw, x, y, row_h),
              rem   |-> Rect(x, fadd(y, row_h), w, fsub(h, row_h))]
    ELSE LET row_w == IF QLt(Zero, h) THEN fdiv(s, h) ELSE Zero
         IN  [rects |-> VStrips(rw, x, y, row_w),
              rem   |-> Rect(fadd(x, row_w), y, fsub(w, row_w), h)]

\* The set-up that keeps the sizes that are not positive.
NormalizeKeepAll ==
    /\ tpc = "call"
    /\ remaining' = _normalize_sizes(sizes, target.w, target.h)
    /\ row' = <<>>
    /\ rects' = <<>>
    /\ rem' = target
    /\ rows' = <<>>
    /\ tpc' = "loop"
    /\ UNCHANGED <<arith, sizes, target, svars, mvars, cvars, rvars, lvars>>

\* Lines 603-608: normalise, drop the non-positive sizes, set up the locals.
Normalize ==
    /\ tpc = "call"
    /\ LET sizes_n == _normalize_sizes(sizes, target.w, target.h)
           positive(v) == QLt(Zero, v)
       IN  remaining' = SelectSeq(sizes_n, positive)
    /\ row' = <<>>
    /\ rects' = <<>>
    /\ rem' = target
    /\ rows' = <<>>
    /\ tpc' = "loop"
    /\ UNCHANGED <<arith, sizes, target, svars, mvars, cvars, rvars, lvars>>

\* A loop iteration that finds row empty: the weight opens the row.
FirstInRow ==
    /\ tpc = "loop"
    /\ remaining # <<>>
    /\ row = <<>>
    /\ row' = <<Head(remaining)>>
    /\ remaining' = Tail(remaining)
    /\ UNCHANGED <<arith, sizes, target, tpc, rects, rem, rows, svars, mvars, cvars, rvars, lvars>>

\* The test that also commits the row when the two ratios are equal.
WorsensOrEqual(rw, cand, r) ==
    LET side == QMin(r.w, r.h)
        prev == _worst_ratio(rw, side)
        curr == _worst_ratio(Append(rw, cand), side)
    IN  ~FGt(prev, curr)

\* curr > prev for the row with the next weight appended.
Worsens(rw, cand, r) ==
    LET side == QMin(r.w, r.h)
        prev == _worst_ratio(rw, side)
        curr == _worst_ratio(Append(rw, cand), side)
    IN  FGt(curr, prev)

\* A loop iteration that commits the row without the candidate.
CommitRow ==
    /\ tpc = "loop"
    /\ remaining # <<>>
    /\ row # <<>>
    /\ Worsens(row, Head(remaining), rem)
    /\ LET r == _layout_row(row, rem.x, rem.y, rem.w, rem.h)
       IN  /\ rects' = rects \o r.rects
           /\ rem' = r.rem
    /\ rows' = Append(rows, row)
    /\ row' = <<Head(remaining)>>
    /\ remaining' = Tail(remaining)
    /\ UNCHANGED <<arith, sizes, target, tpc, svars, mvars, cvars, rvars, lvars>>

\* The iteration that puts the candidate at the front of the row.
AcceptCandidatePrepend ==
    /\ tpc = "loop"
    /\ remaining # <<>>
    /\ row # <<>>
    /\ ~Worsens(row, Head(remaining), rem)
    /\ row' = <<Head(remaining)>> \o row
    /\ remaining' = Tail(remaining)
    /\ UNCHANGED <<arith, sizes, target, tpc, rects, rem, rows, svars, mvars, cvars, rvars, lvars>>

\* A loop iteration that takes the candidate into the row.
AcceptCandidate ==
    /\ tpc = "loop"
    /\ remaining # <<>>
    /\ row # <<>>
    /\ ~Worsens(row, Head(remaining), rem)
    /\ row' = Append(row, Head(remaining))
    /\ remaining' = Tail(remaining)
    /\ UNCHANGED <<arith, sizes, target, tpc, rects, rem, rows, svars, mvars, cvars, rvars, lvars>>

\* After the loop: the last row is laid out and rects returned.
FinishLayout ==
    /\ tpc = "loop"
    /\ remaining = <<>>
    /\ IF row # <<>>
       THEN LET r == _layout_row(row, rem.x, rem.y, rem.w, rem.h)
            IN  /\ rects' = rects \o r.rects
                /\ rem' = r.rem
                /\ rows' = Append(rows, row)
       ELSE UNCHANGED <<rects, rem, rows>>
    /\ tpc' = "done"
    /\ UNCHANGED <<arith, sizes, target, remaining, row, svars, mvars, cvars, rvars, lvars>>

(***************************************************************************)
(* The two specifications: the scan with its bucketizer, and the layout.   *)
(***************************************************************************)
IdleScan ==
    /\ fs = << >>
    /\ rootkind = "dir"
    /\ out = NoOutput
    /\ options = NoOptions
    /\ scan = NoScan
    /\ depth = 0
    /\ largest_n = DefaultLargestFiles
    /\ items = <<>>

IdleMerge ==
    /\ file_list = <<>>
    /\ word_limit = 0
    /\ mpc = "idle"
    /\ next_file = 1
    /\ chunks = <<>>
    /\ chunk_word_counts = <<>>
    /\ written = <<>>

IdleCrawl ==
    /\ web = << >>
    /\ start_urls = <<>>
    /\ disk = << >>
    /\ cpc = "idle"
    /\ visited = {}
    /\ queue = <<>>
    /\ saved_count = 0
    /\ popped = <<>>

IdleReport ==
    /\ tree_depth = 0
    /\ tree_max_entries = 0
    /\ lines = <<>>

\* What last_op records of a handler.
Ran(name, delta) ==
    [name |-> name, delta |-> delta, sel |-> selection, before |-> file_list]
NoOp == [name |-> "none", delta |-> 0, sel |-> {}, before |-> <<>>]

IdleList ==
    /\ listbox = <<>>
    /\ selection = {}
    /\ last_op = NoOp

IdleLayout ==
    /\ arith = "exact"
    /\ sizes = <<>>
    /\ target = Rect(Zero, Zero, Zero, Zero)
    /\ tpc = "idle"
    /\ remaining = <<>>
    /\ row = <<>>
    /\ rects = <<>>
    /\ rem = Rect(Zero, Zero, Zero, Zero)
    /\ rows = <<>>

\* generate_outputs is called on a root directory with out_dir some other
\* path that does not exist yet, or on a root that is missing or a file.
Init ==
    /\ phase = "fs"
    /\ fs = << >>
    /\ \/ rootkind = "dir" /\ out = NoOutput
       \/ /\ rootkind \in {"file", "missing"}
          /\ \E same, dir \in BOOLEAN :
                /\ (same => dir = FALSE)
                /\ out = [NoOutput EXCEPT !.same = same, !.dir = dir]
    /\ options = NoOptions
    /\ scan = NoScan
    /\ depth = 0
    /\ largest_n = DefaultLargestFiles
    /\ items = <<>>
    /\ IdleLayout
    /\ IdleMerge
    /\ IdleCrawl
    /\ IdleReport
    /\ IdleList

Next ==
    \/ \E parent \in DOMAIN fs \cup {Root} :
         \E name \in NamesIn(parent), f \in FileShapes :
            CreateFile(parent, name, f)
    \/ \E parent \in DOMAIN fs \cup {Root} :
         \E name \in NamesIn(parent), d \in DirShapes :
            CreateDir(parent, name, d)
    \/ \E opts \in ScanOptions : Scan(opts, DefaultLargestFiles)
    \/ ScanRaises
    \/ \E D \in 0..MaxGroupDepth : Group(D)

Spec == Init /\ [][Next]_vars

\* The scan alone, over trees with entries the walk fails on, for every
\* number of largest files asked for.
MaxLargest == 2
InitScan ==
    /\ phase = "fs"
    /\ fs = << >>
    /\ rootkind \in {"dir", "locked"}
    /\ out = NoOutput
    /\ options = NoOptions
    /\ scan = NoScan
    /\ depth = 0
    /\ largest_n = DefaultLargestFiles
    /\ items = <<>>
    /\ IdleLayout
    /\ IdleMerge
    /\ IdleCrawl
    /\ IdleReport
    /\ IdleList

NextScan ==
    \/ \E parent \in DOMAIN fs \cup {Root} :
         \E name \in NamesIn(parent), f \in FaultyFileShapes :
            CreateFile(parent, name, f)
    \/ \E parent \in DOMAIN fs \cup {Root} :
         \E name \in NamesIn(parent), d \in FaultyDirShapes :
            CreateDir(parent, name, d)
    \/ \E opts \in ScanOptions, n \in -1..MaxLargest :
         opts.ignore_globs = <<>> /\ Scan(opts, n)

SpecScan == InitScan /\ [][NextScan]_vars

\* The weight lists and target rectangles treemap_rects is called with.
GoldenWeights == <<6, 6, 4, 3, 2, 2, 1>>
WeightLists ==
    UNION {[1..n -> 1..MaxWeight] : n \in 0..MaxLen}
        \cup {GoldenWeights, <<11>>, <<0>>, <<0, 2>>, <<2, 0, 1>>}
Origin == <<1, 2>>
TargetSides == {<<a, b>> : a, b \in 0..MaxSide} \cup {<<6, 4>>}

InitTreemap ==
    /\ phase = "idle"
    /\ IdleScan
    /\ IdleMerge
    /\ IdleCrawl
    /\ arith \in {"exact", "float"}
    /\ \E ws \in WeightLists : sizes = [i \in 1..Len(ws) |-> ToFloat(ws[i])]
    /\ \E wh \in TargetSides :
          target = Rect(ToFloat(Origin[1]), ToFloat(Origin[2]),
                        ToFloat(wh[1]), ToFloat(wh[2]))
    /\ tpc = "call"
    /\ remaining = <<>>
    /\ row = <<>>
    /\ rects = <<>>
    /\ rem = target
    /\ rows = <<>>
    /\ IdleReport
    /\ IdleList

NextTreemap ==
    \/ Normalize
    \/ FirstInRow
    \/ CommitRow
    \/ AcceptCandidate
    \/ FinishLayout

SpecTreemap == InitTreemap /\ [][NextTreemap]_vars

(***************************************************************************)
(* What the scan is meant to count, read off the tree and the policy.      *)
(***************************************************************************)
\* An entry the policy leaves out by itself.
Excluded(tree, opts, p) ==
    \/ _matches_any_glob(_safe_rel_posix(p), opts.ignore_globs)
    \/ (~opts.include_hidden /\ Head(Last(p)) = ".")
    \/ (tree[p].link /\ ~opts.follow_symlinks)

\* An entry that is counted: neither it nor any directory above it is left out.
Included(tree, opts, p) ==
    \A k \in 1..Len(p) : ~Excluded(tree, opts, SubSeq(p, 1, k))

IncludedFiles(tree, opts) ==
    {p \in DOMAIN tree : tree[p].kind = "file" /\ Included(tree, opts, p)}
IncludedDirs(tree, opts) ==
    {p \in DOMAIN tree : tree[p].kind = "dir" /\ Included(tree, opts, p)}

SizeOf(tree) == [p \in DOMAIN tree |-> tree[p].size]

ItemSizes(its) == [i \in 1..Len(its) |-> its[i].size]

\* The directories the scan summarised, and their totals.
SummaryPaths == {scan.dir_summaries[i].key : i \in 1..Len(scan.dir_summaries)}
TotalOf(d) == DictGet(scan.dir_summaries, d).size_bytes
Totals == [d \in SummaryPaths |-> TotalOf(d)]
SummarisedChildren(d) == {q \in SummaryPaths \ {Root} : Parent(q) = d}
\* The bytes of the files directly inside a summarised directory.
DirectOf(d) == TotalOf(d) - SumOver(SummarisedChildren(d), Totals)

FilesLabel(d) == _safe_rel_posix(d) \o DirectFilesSuffix
SubtreeLabel(d) == _safe_rel_posix(d) \o SubtreeSuffix
RootFiles == {p \in DOMAIN fs : Len(p) = 1 /\ fs[p].kind = "file"}

ItemsLabelled(label) == {i \in 1..Len(items) : items[i].label = label}
NoBucket(label) == ItemsLabelled(label) = {}
\* Exactly one returned bucket carries the label, and it has that size.
OneBucket(label, size) ==
    /\ Cardinality(ItemsLabelled(label)) = 1
    /\ \A i \in ItemsLabelled(label) : items[i].size = size
\* The same, a bucket of size zero being dropped.
OneBucketUnlessEmpty(label, size) ==
    IF size > 0 THEN OneBucket(label, size) ELSE NoBucket(label)

(***************************************************************************)
(* Claims on the scan and the bucketizer (specification Spec).             *)
(***************************************************************************)

\* C1: bucket conservation: at every grouping depth, under every scan
\* policy, the sizes of the returned buckets sum to the scan's root total.
BucketConservation ==
    phase = "grouped" => SumSeq(ItemSizes(items)) = scan.total_size_bytes

\* C2: aggregator conservation: the root total is the sum of the sizes of
\* the included files, the summarised directories are the root and the
\* included directories, and each summary's size is its included direct
\* files plus the sizes of its included direct subdirectories.
AggregatorConservation ==
    phase = "scanned" =>
      /\ scan.total_size_bytes = SumOver(IncludedFiles(fs, options), SizeOf(fs))
      /\ SummaryPaths = IncludedDirs(fs, options) \cup {Root}
      /\ \A d \in SummaryPaths :
           TotalOf(d) =
             SumOver({p \in IncludedFiles(fs, options) : Parent(p) = d},
                     SizeOf(fs))
             + SumOver({q \in IncludedDirs(fs, options) : Parent(q) = d},
                       Totals)

\* Witness of C2: a scan that counted a non-empty file inside a subdirectory
\* and left a non-empty file out.
AggregatorConservationWitness ==
    /\ phase = "scanned"
    /\ \E p \in IncludedFiles(fs, options) : Len(p) >= 2 /\ fs[p].size > 0
    /\ \E q \in DOMAIN fs :
         /\ fs[q].kind = "file" /\ fs[q].size > 0
         /\ q \notin IncludedFiles(fs, options)

\* A bucket label that takes in the bytes of file f.
Covers(label, f) ==
    \/ (Len(f) = 1 /\ label = Last(f))
    \/ (Len(f) > 1 /\ label = FilesLabel(Parent(f)))
    \/ \E k \in 1..(Len(f) - 1) : label = SubtreeLabel(SubSeq(f, 1, k))

\* The one bucket the claim names for a counted file.
BucketOf(f, D) ==
    IF Len(f) = 1 THEN Last(f)
    ELSE IF D <= 0 \/ Len(f) - 1 < D THEN FilesLabel(Parent(f))
    ELSE SubtreeLabel(SubSeq(f, 1, D))

\* C3: no double counting: every counted non-empty file is taken in by
\* exactly one returned bucket: its own bucket at root level, the
\* direct-files bucket of its directory when that is shallower than D (or D
\* is 0), the subtree bucket of its depth-D ancestor otherwise.
NoDoubleCounting ==
    phase = "grouped" =>
      \A f \in IncludedFiles(fs, options) :
        fs[f].size > 0 =>
          /\ Cardinality({i \in 1..Len(items) : Covers(items[i].label, f)}) = 1
          /\ \E i \in 1..Len(items) : items[i].label = BucketOf(f, depth)

\* Witness of C3: a counted file below the grouping depth, whose bytes sit
\* in an ancestor's subtree bucket.
NoDoubleCountingWitness ==
    /\ phase = "grouped"
    /\ depth >= 1
    /\ \E f \in IncludedFiles(fs, options) :
         /\ fs[f].size > 0
         /\ Len(f) - 1 > depth

\* The labels the bucketizer may return at depth D.
AllowedLabels(D) ==
    {Last(p) : p \in RootFiles}
      \cup {FilesLabel(d) : d \in {q \in SummaryPaths \ {Root} :
                                      D <= 0 \/ Len(q) < D}}
      \cup {SubtreeLabel(d) : d \in {q \in SummaryPaths \ {Root} :
                                      D >= 1 /\ Len(q) = D}}

\* C7 as stated: at D >= 1 a directory at depth D yields one subtree bucket
\* of its recursive total, a directory above it one direct-files bucket, a
\* directory below it none.
GroupingAtDepth ==
    (phase = "grouped" /\ depth >= 1) =>
      \A d \in SummaryPaths \ {Root} :
        /\ Len(d) = depth =>
             OneBucket(SubtreeLabel(d), TotalOf(d)) /\ NoBucket(FilesLabel(d))
        /\ Len(d) < depth =>
             OneBucket(FilesLabel(d), DirectOf(d)) /\ NoBucket(SubtreeLabel(d))
        /\ Len(d) > depth =>
             NoBucket(SubtreeLabel(d)) /\ NoBucket(FilesLabel(d))

\* C7 amended: the same, a bucket whose size is zero being dropped; and no
\* bucket other than these and the root-level file buckets is returned.
GroupingAtDepthNonEmpty ==
    (phase = "grouped" /\ depth >= 1) =>
      /\ \A d \in SummaryPaths \ {Root} :
           /\ Len(d) = depth =>
                /\ OneBucketUnlessEmpty(SubtreeLabel(d), TotalOf(d))
                /\ NoBucket(FilesLabel(d))
           /\ Len(d) < depth =>
                /\ OneBucketUnlessEmpty(FilesLabel(d), DirectOf(d))
                /\ NoBucket(SubtreeLabel(d))
           /\ Len(d) > depth =>
                NoBucket(SubtreeLabel(d)) /\ NoBucket(FilesLabel(d))
      /\ \A i \in 1..Len(items) : items[i].label \in AllowedLabels(depth)

\* Witness of C7: grouping at depth 2 over a directory above the boundary
\* with files of its own and a non-empty directory on the boundary.
GroupingAtDepthWitness ==
    /\ phase = "grouped"
    /\ depth = 2
    /\ \E d \in SummaryPaths \ {Root} :
         /\ Len(d) = 1 /\ DirectOf(d) > 0
         /\ \E i \in 1..Len(items) : items[i].label = FilesLabel(d)
    /\ \E d \in SummaryPaths \ {Root} : Len(d) = 2

\* C8: at depth 0 every summarised directory but the root yields exactly
\* one direct-files bucket, of its total minus its child directories'
\* totals (none when that is zero), and no subtree bucket is returned.
UnboundedGrouping ==
    (phase = "grouped" /\ depth = 0) =>
      /\ \A d \in SummaryPaths \ {Root} :
           /\ OneBucketUnlessEmpty(FilesLabel(d), DirectOf(d))
           /\ NoBucket(SubtreeLabel(d))
      /\ \A i \in 1..Len(items) : items[i].label \in AllowedLabels(0)

\* Witness of C8: depth 0 over a directory whose bytes all lie in a child
\* directory (its own bucket is dropped) while the child's bucket is kept.
UnboundedGroupingWitness ==
    /\ phase = "grouped"
    /\ depth = 0
    /\ \E d \in SummaryPaths \ {Root} :
         /\ TotalOf(d) > 0 /\ DirectOf(d) = 0
         /\ \E q \in SummarisedChildren(d) : ~NoBucket(FilesLabel(q))

\* The tree is flat: nothing but counted files directly inside the root.
FlatRoot ==
    \A p \in DOMAIN fs :
      Len(p) = 1 /\ fs[p].kind = "file" /\ Included(fs, options, p)

\* C9 as stated: every file directly inside the root has its own bucket,
\* labelled by its name and sized by its byte count; the root has no bucket
\* of its own; a flat root's scan totals are those of its files.
RootLevelFiles ==
    phase = "grouped" =>
      /\ \A p \in RootFiles : OneBucket(Last(p), fs[p].size)
      /\ NoBucket(FilesLabel(Root)) /\ NoBucket(SubtreeLabel(Root))
      /\ FlatRoot =>
           /\ scan.total_size_bytes = SumOver(DOMAIN fs, SizeOf(fs))
           /\ scan.total_file_count = Cardinality(DOMAIN fs)
           /\ scan.total_dir_count = 0

\* C9 amended: the same, a file of zero bytes getting no bucket.
RootLevelFilesNonEmpty ==
    phase = "grouped" =>
      /\ \A p \in RootFiles : OneBucketUnlessEmpty(Last(p), fs[p].size)
      /\ NoBucket(FilesLabel(Root)) /\ NoBucket(SubtreeLabel(Root))
      /\ \A i \in 1..Len(items) : items[i].label \in AllowedLabels(depth)
      /\ FlatRoot =>
           /\ scan.total_size_bytes = SumOver(DOMAIN fs, SizeOf(fs))
           /\ scan.total_file_count = Cardinality(DOMAIN fs)
           /\ scan.total_dir_count = 0
           /\ Len(items) = Cardinality({p \in RootFiles : fs[p].size > 0})

\* Witness of C9: a flat root of three non-empty files, grouped at depth 0
\* into three buckets.
RootLevelFilesWitness ==
    /\ phase = "grouped"
    /\ depth = 0
    /\ FlatRoot
    /\ Cardinality(DOMAIN fs) = 3
    /\ \A p \in DOMAIN fs : fs[p].size > 0
    /\ Len(items) = 3

\* Position of a label in the dict grouped.
PositionIn(g, label) == CHOOSE i \in 1..Len(g) : g[i].key = label

\* C10: the returned list holds the dict's positive entries, sorted by
\* size in non-increasing order, equal sizes in insertion order; every
\* returned size is above zero.
BucketOrdering ==
    phase = "grouped" =>
      LET g == GroupedBuckets(fs, scan, depth) IN
      /\ \A i \in 1..Len(items) :
           /\ items[i].size > 0
           /\ \E k \in 1..Len(g) :
                g[k].key = items[i].label /\ g[k].val = items[i].size
      /\ Len(items) = Cardinality({k \in 1..Len(g) : g[k].val > 0})
      /\ \A i, j \in 1..Len(items) :
           i < j =>
             /\ items[i].size >= items[j].size
             /\ items[i].size = items[j].size =>
                  PositionIn(g, items[i].label) < PositionIn(g, items[j].label)

\* Witness of C10: a returned list with two buckets of one size behind a
\* larger one.
BucketOrderingWitness ==
    /\ phase = "grouped"
    /\ Len(items) = 3
    /\ items[1].size > items[2].size
    /\ items[2].size = items[3].size

(***************************************************************************)
(* Claims on the layout engine (specification SpecTreemap).                *)
(***************************************************************************)
AllPositive(szs) == \A i \in 1..Len(szs) : QLt(Zero, szs[i])
ProperTarget == QLt(Zero, target.w) /\ QLt(Zero, target.h)
AsFloats(ws) == [i \in 1..Len(ws) |-> QInt(ws[i])]

RECURSIVE QSum(_)
\* The exact sum of a sequence of fractions.
QSum(s) == IF s = <<>> THEN Zero ELSE QAdd(Head(s), QSum(Tail(s)))

Area(r) == QMul(r.w, r.h)
Inside(r, t) ==
    /\ QLe(Zero, r.w) /\ QLe(Zero, r.h)
    /\ QLe(t.x, r.x) /\ QLe(QAdd(r.x, r.w), QAdd(t.x, t.w))
    /\ QLe(t.y, r.y) /\ QLe(QAdd(r.y, r.h), QAdd(t.y, t.h))
\* The two rectangles share a region of positive area.
Overlap(a, b) ==
    /\ QLt(a.x, QAdd(b.x, b.w)) /\ QLt(b.x, QAdd(a.x, a.w))
    /\ QLt(a.y, QAdd(b.y, b.h)) /\ QLt(b.y, QAdd(a.y, a.h))

\* C4: layout tiling: in exact arithmetic, for positive weights and a
\* target with w > 0 and h > 0, the returned rectangles' areas sum to w*h,
\* every rectangle lies inside the target, and no two overlap in area.
LayoutTiling ==
    (/\ tpc = "done" /\ arith = "exact"
     /\ sizes # <<>> /\ AllPositive(sizes) /\ ProperTarget) =>
      /\ QSum([i \in 1..Len(rects) |-> Area(rects[i])]) = Area(target)
      /\ \A i \in 1..Len(rects) : Inside(rects[i], target)
      /\ \A i, j \in 1..Len(rects) : i < j => ~Overlap(rects[i], rects[j])

\* Witness of C4: a finished exact layout of three weights in two or more
\* rows, one of them holding two weights.
LayoutTilingWitness ==
    /\ tpc = "done" /\ arith = "exact"
    /\ Len(sizes) = 3 /\ AllPositive(sizes) /\ ProperTarget
    /\ Len(rows) >= 2
    /\ \E k \in 1..Len(rows) : Len(rows[k]) = 2

GoldenInput ==
    /\ sizes = AsFloats(GoldenWeights)
    /\ target.w = QInt(6) /\ target.h = QInt(4)

\* C5 as stated: the golden input is laid out in exactly two rows,
\* [6, 6] and [4, 3, 2, 2, 1].
GoldenTwoRows ==
    (tpc = "done" /\ GoldenInput) =>
      rows = << AsFloats(<<6, 6>>), AsFloats(<<4, 3, 2, 2, 1>>) >>

\* C5 amended: the golden input is laid out in six rows: [6, 6], then each
\* of 4, 3, 2, 2, 1 in a row of its own.
GoldenSixRows ==
    (tpc = "done" /\ GoldenInput) =>
      rows = << AsFloats(<<6, 6>>), AsFloats(<<4>>), AsFloats(<<3>>),
                AsFloats(<<2>>), AsFloats(<<2>>), AsFloats(<<1>>) >>

\* Witness of C5: the layout of the golden input has finished.
GoldenWitness == tpc = "done" /\ GoldenInput /\ Len(rects) = 7

\* C6 as stated: no weights give no rectangles; one positive weight and a
\* target with w > 0 and h > 0 give the target rectangle itself.
DegenerateWeights ==
    tpc = "done" =>
      /\ sizes = <<>> => rects = <<>>
      /\ (Len(sizes) = 1 /\ AllPositive(sizes) /\ ProperTarget) =>
           rects = <<target>>

\* |a - b| is at most b * 2^(2 - MantissaBits).
CloseTo(a, b) ==
    LET diff == IF QLt(a, b) THEN QSub(b, a) ELSE QSub(a, b)
    IN  QLe(QMul(diff, QInt(Pow2(MantissaBits - 2))), b)

\* C6 amended: no weights give no rectangles; one positive weight and a
\* target with w > 0 and h > 0 give one rectangle at the target's x and y,
\* whose width and height are the target's in exact arithmetic and within
\* rounding of them in floating point.
DegenerateWeightsRounded ==
    tpc = "done" =>
      /\ sizes = <<>> => rects = <<>>
      /\ (Len(sizes) = 1 /\ AllPositive(sizes) /\ ProperTarget) =>
           /\ Len(rects) = 1
           /\ rects[1].x = target.x /\ rects[1].y = target.y
           /\ CloseTo(rects[1].w, target.w) /\ CloseTo(rects[1].h, target.h)
           /\ arith = "exact" => rects[1] = target

\* Witness of C6: one weight, not the target's area, laid out exactly on a
\* target that is not square.
DegenerateWeightsWitness ==
    /\ tpc = "done" /\ arith = "exact"
    /\ Len(sizes) = 1 /\ sizes[1] = QInt(2)
    /\ ProperTarget /\ target.w # target.h
    /\ rects = <<target>>
(***************************************************************************)
(* Claims on what the scan leaves out and what it keeps (Spec, SpecScan).  *)
(***************************************************************************)
\* The entry is left out by should_skip: a glob matches its relative path,
\* or its name is hidden and hidden entries are not included.
SkipExcluded(opts, p) ==
    \/ \E i \in 1..Len(opts.ignore_globs) :
          fnmatch(_safe_rel_posix(p), opts.ignore_globs[i])
    \/ (~opts.include_hidden /\ Head(Last(p)) = ".")

\* The entry or a directory above it has property Q.
SelfOrAbove(p, Has(_)) == \E k \in 1..Len(p) : Has(SubSeq(p, 1, k))

\* The tree without the entries in S.
Without(tree, S) == [p \in DOMAIN tree \ S |-> tree[p]]

LargestPaths == {scan.largest_files[i].path : i \in 1..Len(scan.largest_files)}
WarnedPaths == {scan.errors[i].path : i \in 1..Len(scan.errors)}

\* C11: full skip: an entry that a glob or the hidden rule excludes, and
\* everything below it, has no summary, is not in the largest-files list,
\* and adds nothing to any size, count or extension total: the scan's
\* result is that of the tree without these entries.
FullSkip ==
    phase = "scanned" =>
      LET skipped(p) == SkipExcluded(options, p)
          gone == {p \in DOMAIN fs : SelfOrAbove(p, skipped)}
      IN  /\ gone \cap SummaryPaths = {}
          /\ gone \cap LargestPaths = {}
          /\ gone \cap WarnedPaths = {}
          /\ scan = scan_directory(Without(fs, gone), options,
                                   DefaultLargestFiles)

\* Witness of C11: a scan that skipped a directory holding a non-empty file
\* and counted a file elsewhere.
FullSkipWitness ==
    /\ phase = "scanned"
    /\ \E d \in DOMAIN fs :
         /\ fs[d].kind = "dir" /\ SkipExcluded(options, d)
         /\ ~fs[d].link
         /\ \E f \in DOMAIN fs :
              Parent(f) = d /\ fs[f].kind = "file" /\ fs[f].size > 0
    /\ scan.total_file_count >= 1

\* The tree with every symbolic link replaced by what it points to.
Resolved(tree) == [p \in DOMAIN tree |-> [tree[p] EXCEPT !.link = FALSE]]

\* C12: symlink policy: when links are not followed, a link and everything
\* below it is counted nowhere and never walked (the result is that of the
\* tree without the links); when links are followed, a link counts as the
\* file or directory it points to (the result is that of the tree with the
\* targets in the links' places).
SymlinkPolicy ==
    phase = "scanned" =>
      LET islink(p) == fs[p].link
          below == {p \in DOMAIN fs : SelfOrAbove(p, islink)}
      IN  IF options.follow_symlinks
          THEN scan = scan_directory(Resolved(fs), options, DefaultLargestFiles)
          ELSE /\ below \cap SummaryPaths = {}
               /\ below \cap LargestPaths = {}
               /\ scan = scan_directory(Without(fs, below), options,
                                        DefaultLargestFiles)

\* Witness of C12: a scan that followed a link to a directory and counted a
\* non-empty file below it.
SymlinkPolicyWitness ==
    /\ phase = "scanned"
    /\ options.follow_symlinks
    /\ \E d \in SummaryPaths \ {Root} :
         /\ fs[d].link
         /\ TotalOf(d) > 0
\* The walk comes to the entry: neither it nor a directory above it is left
\* out by the policy, and every directory above it was listed.
Reached(p) ==
    /\ \A k \in 1..Len(p) :
         LET q == SubSeq(p, 1, k)
         IN  ~SkipExcluded(options, q) /\ ~(fs[q].link /\ ~options.follow_symlinks)
    /\ \A k \in 1..(Len(p) - 1) : fs[SubSeq(p, 1, k)].fail = "none"
    /\ rootkind = "dir"

\* The entries the walk fails on.
FailedEntries ==
    {p \in DOMAIN fs : fs[p].fail # "none" /\ Reached(p)}
        \cup (IF rootkind = "locked" THEN {Root} ELSE {})

\* C13: per-entry recoverable failure: each entry the walk fails on gets
\* exactly one warning naming it, the scan still returns a result, and the
\* entry is excluded from every total (size, file count, directory count,
\* extension totals): the totals are those of the tree without it.
PerEntryFailure ==
    phase = "scanned" =>
      LET clean == scan_directory(Without(fs, FailedEntries), options,
                                  DefaultLargestFiles)
      IN  /\ Len(scan.errors) = Cardinality(FailedEntries)
          /\ WarnedPaths = FailedEntries
          /\ scan.total_size_bytes = clean.total_size_bytes
          /\ scan.total_file_count = clean.total_file_count
          /\ scan.total_dir_count = clean.total_dir_count
          /\ scan.extension_bytes = clean.extension_bytes
          /\ scan.extension_counts = clean.extension_counts
\* The files the scan records: the walk comes to them and reads their size.
CountedFiles ==
    {p \in DOMAIN fs : fs[p].kind = "file" /\ fs[p].fail = "none" /\ Reached(p)}

NameIndex(n) == CHOOSE i \in 1..Len(NameOrder) : NameOrder[i] = n
\* The walk comes to p before q: depth first, each directory in listing order.
Before(p, q) ==
    \E k \in 1..Len(p) :
      /\ k <= Len(q)
      /\ SubSeq(p, 1, k - 1) = SubSeq(q, 1, k - 1)
      /\ NameIndex(p[k]) < NameIndex(q[k])

\* Entry a of the largest-files list ranks above file f.
RanksAbove(a, f) ==
    \/ a.size_bytes > fs[f].size
    \/ (a.size_bytes = fs[f].size /\ Before(a.path, f))

\* C15: top-N largest files: largest_files holds min(N, number of counted
\* files) entries (none when N <= 0), each a counted file of the tree with
\* its size, in non-increasing size order with ties in discovery order, and
\* every counted file left out ranks below every entry kept.
TopLargest ==
    phase = "scanned" =>
      LET L == scan.largest_files
          n == IF largest_n > 0 THEN largest_n ELSE 0
          m == Cardinality(CountedFiles)
      IN  /\ Len(L) = IF n < m THEN n ELSE m
          /\ \A i \in 1..Len(L) :
               L[i].path \in CountedFiles /\ L[i].size_bytes = fs[L[i].path].size
          /\ \A i, j \in 1..Len(L) :
               i < j => /\ L[i].path # L[j].path
                        /\ RanksAbove(L[i], L[j].path)
          /\ \A f \in CountedFiles \ LargestPaths :
               \A i \in 1..Len(L) : RanksAbove(L[i], f)

\* Witness of C15: one of two counted files is kept; the file left out has
\* the same size and lies in another directory.
TopLargestWitness ==
    /\ phase = "scanned"
    /\ largest_n = 1
    /\ Len(scan.largest_files) = 1
    /\ Cardinality(CountedFiles) = 2
    /\ \E f \in CountedFiles \ LargestPaths :
         /\ fs[f].size = scan.largest_files[1].size_bytes
         /\ Parent(f) # Parent(scan.largest_files[1].path)
(***************************************************************************)
(* Claims on generate_outputs (Spec).                                      *)
(***************************************************************************)
\* C14: fatal precondition: called on a root that is missing or not a
\* directory, generate_outputs raises before any traversal and leaves no
\* partial output: no scan result, no report or treemap file, and the root
\* and out_dir as they were.
FatalPrecondition ==
    (phase # "fs" /\ out.before.root \in {"file", "missing"}) =>
      /\ phase = "raised"
      /\ out.raised # "none"
      /\ scan = NoScan
      /\ out.written = {}
      /\ out.dir = out.before.dir
      /\ rootkind = out.before.root
(***************************************************************************)
(* Further claims on the layout engine (SpecTreemap).                      *)
(***************************************************************************)
\* The weights above zero, in input order.
PositiveWeights == SelectSeq(sizes, LAMBDA v : QLt(Zero, v))

\* No number the layout holds is the result of a division by zero.
Finite(v) == v.d > 0
FiniteRect(r) == Finite(r.x) /\ Finite(r.y) /\ Finite(r.w) /\ Finite(r.h)
NoZeroDivision ==
    /\ \A i \in 1..Len(remaining) : Finite(remaining[i])
    /\ \A i \in 1..Len(row) : Finite(row[i])
    /\ \A i \in 1..Len(rects) : FiniteRect(rects[i])
    /\ FiniteRect(rem)

DegenerateTargetRect == target.w = Zero \/ target.h = Zero

\* C17 as stated: on a target of zero width or height nothing is divided by
\* zero and the result has one rectangle of zero area per weight.
DegenerateTarget ==
    /\ NoZeroDivision
    /\ (tpc = "done" /\ DegenerateTargetRect) =>
         /\ Len(rects) = Len(sizes)
         /\ \A i \in 1..Len(rects) : Area(rects[i]) = Zero

\* C17 amended: on a target of zero width or height nothing is divided by
\* zero and the result is the empty list: every normalised weight is zero
\* and is dropped, no row is laid out.
DegenerateTargetEmpty ==
    /\ NoZeroDivision
    /\ (tpc = "done" /\ DegenerateTargetRect) => (rects = <<>> /\ rows = <<>>)

\* Witness of C17: a finished layout of two positive weights on a target of
\* zero width and positive height.
DegenerateTargetWitness ==
    /\ tpc = "done"
    /\ target.w = Zero /\ QLt(Zero, target.h)
    /\ Len(sizes) = 2 /\ AllPositive(sizes)
    /\ rects = <<>>
(***************************************************************************)
(* file_merger_chunked_gui.py: merge_chunked.  A text is a sequence of     *)
(* symbols: " " and "\n" are the whitespace characters, every other symbol *)
(* stands for a run of non-whitespace characters.                          *)
(***************************************************************************)
MaxFiles == 3

Whitespace == {" ", "\n"}

\* len(text.split()): the number of maximal runs of non-whitespace symbols.
count_words(text) ==
    Cardinality({i \in 1..Len(text) :
        /\ text[i] \notin Whitespace
        /\ (i = 1 \/ text[i - 1] \in Whitespace)})

\* os.path.splitext(name)[1]: from the last "." on, unless only "." come
\* before it.
splitext_ext(name) ==
    LET i == LastDot(name)
    IN  IF i > 0 /\ \E j \in 1..(i - 1) : name[j] # "."
        THEN SubSeq(name, i, Len(name)) ELSE <<>>

NoExtMerge == <<"<no", " ", "ext>">>

\* The directory of every input file.
MergeDir == <<"/", "d", "/">>

\* HEADER_TEMPLATE.format(...): size, mtime and sha256 are runs without
\* whitespace.
build_header(file) ==
    LET ext == splitext_ext(file.name) IN
    <<"---", " ", "FILE", " ", "START", " ", "---", "\n">>
    \o <<"Name:", " ">> \o file.name \o <<"\n">>
    \o <<"Path:", " ">> \o MergeDir \o file.name \o <<"\n">>
    \o <<"Extension:", " ">> \o (IF ext = <<>> THEN NoExtMerge ELSE ext)
    \o <<"\n">>
    \o <<"Size:", " ", "<size>", " ", "bytes", "\n">>
    \o <<"Modified:", " ", "<mtime>", "\n">>
    \o <<"SHA256:", " ", "<sha256>", "\n">>
    \o <<"---", " ", "CONTENT", " ", "START", " ", "---", "\n">>

FOOTER == <<"\n", "---", " ", "FILE", " ", "END", " ", "---", "\n", "\n">>

build_file_entry(file) == build_header(file) \o file.content \o FOOTER

\* The input files: a name and the text read from the file.
MergeNames == { <<"a", ".", "t">>, <<"a", " ", "b">> }
MergeContents == { <<>>, <<"w">>, <<"w", " ", "w", "\n">> }
MergeFiles == [name : MergeNames, content : MergeContents]

\* The word limits tried: none, below one entry, and around one, two and
\* three entries.
WordLimits == {0, 26, 52, 53, 54, 57, 81}

RECURSIVE Flatten(_)
\* The concatenation of a sequence of sequences.
Flatten(ss) == IF ss = <<>> THEN <<>> ELSE Head(ss) \o Flatten(Tail(ss))

\* The test of the loop: the entry fits into the current chunk.
fits_entry_only(count, entry_words, limit) == entry_words <= limit

fits_strict(count, entry_words, limit) == count + entry_words < limit

fits(count, entry_words, limit) == count + entry_words <= limit

Digit(n) == <<"0", "1", "2", "3", "4", "5", "6", "7", "8", "9">>[n + 1]

\* f"{base_root}_{idx:03d}.txt"
chunk_path(idx) ==
    <<"out", "_">>
    \o (IF idx >= 1000 THEN <<Digit((idx \div 1000) % 10)>> ELSE <<>>)
    \o <<Digit((idx \div 100) % 10), Digit((idx \div 10) % 10), Digit(idx % 10)>>
    \o <<".txt">>

\* One iteration of the loop over file_list.
MergeStep ==
    /\ mpc = "loop"
    /\ next_file <= Len(file_list)
    /\ LET entry == build_file_entry(file_list[next_file])
           entry_words == count_words(entry)
           n == Len(chunks)
       IN  IF n > 0 /\ fits(chunk_word_counts[n], entry_words, word_limit)
           THEN /\ chunks' = [chunks EXCEPT ![n] = Append(@, entry)]
                /\ chunk_word_counts' =
                       [chunk_word_counts EXCEPT ![n] = @ + entry_words]
           ELSE /\ chunks' = Append(chunks, <<entry>>)
                /\ chunk_word_counts' = Append(chunk_word_counts, entry_words)
    /\ next_file' = next_file + 1
    /\ UNCHANGED <<file_list, word_limit, mpc, written, svars, tvars, cvars, rvars, lvars>>

\* The loop that writes every chunk to its file.
WriteChunks ==
    /\ mpc = "loop"
    /\ next_file > Len(file_list)
    /\ written' = [idx \in 1..Len(chunks) |->
                      [path |-> chunk_path(idx), text |-> Flatten(chunks[idx])]]
    /\ mpc' = "done"
    /\ UNCHANGED <<file_list, word_limit, next_file, chunks, chunk_word_counts,
                   svars, tvars, cvars, rvars, lvars>>

FileLists == UNION {[1..n -> MergeFiles] : n \in 0..MaxFiles}

InitMerge ==
    /\ phase = "idle"
    /\ IdleScan
    /\ IdleLayout
    /\ IdleCrawl
    /\ file_list \in FileLists
    /\ word_limit \in WordLimits
    /\ mpc = "loop"
    /\ next_file = 1
    /\ chunks = <<>>
    /\ chunk_word_counts = <<>>
    /\ written = <<>>
    /\ IdleReport
    /\ IdleList

NextMerge == MergeStep \/ WriteChunks

SpecMerge == InitMerge /\ [][NextMerge]_vars

\* The entries of the files handled so far, in input order.
EntriesSoFar == [k \in 1..(next_file - 1) |-> build_file_entry(file_list[k])]

\* C18: every chunk, in memory and as written, has at most word_limit words,
\* unless it holds exactly one entry and that entry alone exceeds the limit;
\* the running count of a chunk is the word count of its text.
ChunkWordLimit ==
    /\ \A j \in 1..Len(chunks) :
          /\ chunk_word_counts[j] = count_words(Flatten(chunks[j]))
          /\ \/ count_words(Flatten(chunks[j])) <= word_limit
             \/ /\ Len(chunks[j]) = 1
                /\ count_words(chunks[j][1]) > word_limit
    /\ \A j \in 1..Len(written) :
          \/ count_words(written[j].text) <= word_limit
          \/ /\ Len(chunks[j]) = 1
             /\ written[j].text = chunks[j][1]
             /\ count_words(chunks[j][1]) > word_limit

\* C18 witness: three files written as a chunk of two entries that reaches
\* the limit exactly and a chunk of one entry below the limit.
ChunkWordLimitWitness ==
    /\ mpc = "done"
    /\ Len(file_list) = 3
    /\ Len(written) = 2
    /\ Len(chunks[1]) = 2
    /\ count_words(written[1].text) = word_limit
    /\ count_words(written[2].text) < word_limit

\* C18 witness for the exception: a chunk of one entry above the limit.
ChunkOverLimitWitness ==
    /\ mpc = "done"
    /\ \E j \in 1..Len(written) :
          /\ Len(chunks[j]) = 1
          /\ count_words(written[j].text) > word_limit
          /\ word_limit > 0

\* C19: the chunks hold the entries of the files in input order, each entry
\* whole in one chunk, no chunk is empty, the written files hold the same
\* text, and a chunk other than the first starts with an entry that did not
\* fit into the chunk before it.
NeverSplitInOrder ==
    /\ Flatten(chunks) = EntriesSoFar
    /\ \A j \in 1..Len(chunks) : chunks[j] # <<>>
    /\ (chunks = <<>>) = (next_file = 1)
    /\ \A j \in 2..Len(chunks) :
          count_words(Flatten(chunks[j - 1])) + count_words(chunks[j][1])
              > word_limit
    /\ mpc = "done" =>
          /\ Len(written) = Len(chunks)
          /\ Flatten([j \in 1..Len(written) |-> written[j].text])
                 = Flatten(EntriesSoFar)
          /\ \A j \in 1..Len(written) : written[j].text = Flatten(chunks[j])

\* C19 witness: three different entries in two written chunks, the second
\* chunk started by the third file.
NeverSplitInOrderWitness ==
    /\ mpc = "done"
    /\ Len(file_list) = 3
    /\ \A a, b \in 1..3 : a # b => file_list[a] # file_list[b]
    /\ Len(written) = 2
    /\ Len(chunks[1]) = 2
    /\ Len(chunks[2]) = 1
    /\ count_words(Flatten(chunks[1])) < word_limit
(***************************************************************************)
(* download_haskell_docs.py: crawl_and_save.  A URL is a sequence of       *)
(* symbols: "h" stands for the scheme and host, "/" separates the path     *)
(* segments, "?" starts the query and "#" the fragment.  A local file path *)
(* is the sequence of symbols below OUTPUT_DIR/subfolder.                  *)
(***************************************************************************)
MaxSeeds == 2

startswith(s, pre) == Len(pre) <= Len(s) /\ SubSeq(s, 1, Len(pre)) = pre

endswith(s, suf) ==
    Len(suf) <= Len(s) /\ SubSeq(s, Len(s) - Len(suf) + 1, Len(s)) = suf

\* The part of s before the first symbol c, all of s when it has none.
Before1(s, c) ==
    LET at == {i \in 1..Len(s) : s[i] = c}
    IN  IF at = {} THEN s
        ELSE SubSeq(s, 1, (CHOOSE i \in at : \A j \in at : i <= j) - 1)

\* urldefrag(url)[0]
urldefrag(url) == Before1(url, "#")

\* urlparse(url).path: what follows the host, without query and fragment.
urlpath(url) == Before1(Before1(Tail(url), "#"), "?")

\* urljoin(base_url, href) for an absolute href, an href that starts with
\* "/" and an href relative to the directory of base_url.
urljoin(base_url, href) ==
    IF href # <<>> /\ Head(href) = "h" THEN href
    ELSE IF href # <<>> /\ Head(href) = "/" THEN <<"h">> \o href
    ELSE LET slashes == {i \in 1..Len(base_url) : base_url[i] = "/"}
             last == CHOOSE i \in slashes : \A j \in slashes : j <= i
         IN  SubSeq(base_url, 1, last) \o href

\* The documentation root every crawl of the model is bounded by.
DocPrefix == <<"h", "/", "d", "/">>

\* Some of skip_extensions, each one symbol behind a ".".
SkipExtensions == {"css", "js", "png", "zip"}

\* The test of the loop of extract_links: the href is kept.
KeepsLink(href, base_url, prefix) ==
    /\ ~(href # <<>> /\ Head(href) \in {"#", "javascript:", "mailto:"})
    /\ LET absolute == urldefrag(urljoin(base_url, href))
           path == urlpath(absolute)
       IN  /\ startswith(absolute, prefix)
           /\ ~\E ext \in SkipExtensions : endswith(path, <<".", ext>>)

\* extract_links over the hrefs of the page's <a> tags, in document order:
\* the hrefs that are kept, each resolved and without its fragment.
extract_links(hrefs, base_url, prefix) ==
    LET Keeps(href) == KeepsLink(href, base_url, prefix)
        kept == SelectSeq(hrefs, Keeps)
    IN  [i \in 1..Len(kept) |-> urldefrag(urljoin(base_url, kept[i]))]

\* re.sub(r'[*?"<>|]', "_", raw)
sanitize_path(raw) ==
    [i \in 1..Len(raw) |->
        IF raw[i] \in {"*", "?", "\"", "<", ">", "|"} THEN "_" ELSE raw[i]]

RECURSIVE lstrip_slash(_)
lstrip_slash(s) ==
    IF s # <<>> /\ Head(s) = "/" THEN lstrip_slash(Tail(s)) ELSE s

IndexHtml == <<"index", ".", "html">>

\* url_to_filepath: the path below OUTPUT_DIR/subfolder.
url_to_filepath(url, prefix) ==
    LET u == urldefrag(url)
        relative == IF startswith(u, prefix)
                    THEN SubSeq(u, Len(prefix) + 1, Len(u))
                    ELSE lstrip_slash(urlpath(u))
        indexed == IF relative = <<>> \/ Last(relative) = "/"
                   THEN relative \o IndexHtml ELSE relative
        sanitized == sanitize_path(indexed)
    IN  IF \A i \in 1..Len(sanitized) : sanitized[i] \in {".", "_"}
        THEN IndexHtml ELSE sanitized

\* re.sub(r"\.html?$", ".txt", filepath), or filepath + ".txt".
txt_path_of(filepath) ==
    IF Len(filepath) >= 2 /\ filepath[Len(filepath) - 1] = "."
       /\ Last(filepath) \in {"html", "htm"}
    THEN SubSeq(filepath, 1, Len(filepath) - 1) \o <<"txt">>
    ELSE filepath \o <<".", "txt">>

\* On the local disk: path is a file, path is a directory (a file lies below
\* it), a file lies on the way to path.
IsFileOn(d, path) == path \in DOMAIN d
IsDirOn(d, path) == \E f \in DOMAIN d : startswith(f, path \o <<"/">>)
BelowFileOn(d, path) == \E f \in DOMAIN d : startswith(path, f \o <<"/">>)

\* os.path.exists(path)
ExistsOn(d, path) ==
    ~BelowFileOn(d, path) /\ (IsFileOn(d, path) \/ IsDirOn(d, path))

\* d with the file path holding content.
WithFile(d, path, content) ==
    [f \in DOMAIN d \cup {path} |-> IF f = path THEN content ELSE d[f]]

\* The pages of the model: the root, a page, and a page below that page.
PageRoot == DocPrefix
PageA == DocPrefix \o <<"a">>
PageAB == DocPrefix \o <<"a", "/", "b">>
Pages == {PageRoot, PageA, PageAB}

\* The HTML a page may have: its hrefs in document order and its text.
HtmlChoices == {
    [hrefs |-> <<>>, text |-> <<>>],
    [hrefs |-> << <<"a", "#", "f">>, <<"/", "d", "/", "a">>,
                  <<"h", "/", "x">>, <<"#", "t">> >>,
     text |-> <<"t">>],
    [hrefs |-> << <<"/", "d", "/", "a", "/", "b">>, <<"/", "d", "/">>,
                  <<"s", ".", "css">>, <<"/", "d", "/", "a", "?", "q">> >>,
     text |-> <<"t">>] }

\* The seeds: the root, the root with a fragment, a URL outside the prefix.
SeedUrls == {PageRoot, PageRoot \o <<"#", "top">>, <<"h", "/", "x">>}

\* The sites of the model: the pages that answer, each with its HTML; the
\* request for any other URL fails.
Webs == UNION {[S -> HtmlChoices] : S \in SUBSET Pages}

\* The local disk before the crawl: empty, or with the page "a" of an
\* earlier run.
NoFiles == [f \in {} |-> <<>>]
DiskChoices == {
    NoFiles,
    [f \in {<<"a">>} |->
        [hrefs |-> << <<"/", "d", "/", "a", "/", "b">> >>, text |-> <<"t">>]] }

RECURSIVE seed_queue(_, _, _)
\* The loop that seeds the queue.
seed_queue(urls, vis, q) ==
    IF urls = <<>> THEN [visited |-> vis, queue |-> q]
    ELSE LET clean_url == urldefrag(Head(urls))
         IN  IF clean_url \notin vis
             THEN seed_queue(Tail(urls), vis \cup {clean_url},
                             Append(q, clean_url))
             ELSE seed_queue(Tail(urls), vis, q)

RECURSIVE enqueue(_, _, _)
\* The loop that enqueues the new_links that are not in visited.
enqueue(links, vis, q) ==
    IF links = <<>> THEN [visited |-> vis, queue |-> q]
    ELSE IF Head(links) \in vis
         THEN enqueue(Tail(links), vis, q)
         ELSE enqueue(Tail(links), vis \cup {Head(links)},
                      Append(q, Head(links)))

\* crawl_and_save up to the while loop.
Seed ==
    /\ cpc = "seed"
    /\ \E s \in {seed_queue(start_urls, {}, <<>>)} :
           /\ visited' = s.visited
           /\ queue' = s.queue
    /\ saved_count' = 0
    /\ cpc' = "loop"
    /\ UNCHANGED <<web, start_urls, disk, popped, svars, tvars, mvars, rvars, lvars>>

\* The rest of an iteration once html is at hand: the .txt version, the
\* count, the new links.
SavePage(url, filepath, html, d) ==
    \E txt_path \in {txt_path_of(filepath)},
       new_links \in {extract_links(html.hrefs, url, DocPrefix)} :
    \E links \in {enqueue(new_links, visited, Tail(queue))} :
        /\ disk' = IF ~ExistsOn(d, txt_path) /\ html.text # <<>>
                   THEN WithFile(d, txt_path,
                            [hrefs |-> <<>>,
                             text |-> <<"Source:", " ">> \o url
                                      \o <<"\n", "\n">> \o html.text])
                   ELSE d
        /\ saved_count' = saved_count + 1
        /\ visited' = links.visited
        /\ queue' = links.queue
        /\ popped' = Append(popped, [url |-> url, got |-> TRUE])
        /\ cpc' = cpc

\* An iteration that ends in an uncaught OSError.
Raise(url) ==
    /\ cpc' = "raised"
    /\ queue' = Tail(queue)
    /\ popped' = Append(popped, [url |-> url, got |-> FALSE])
    /\ UNCHANGED <<disk, saved_count, visited>>

\* One iteration of the while loop.
ProcessUrl ==
    /\ cpc = "loop"
    /\ queue # <<>>
    /\ \E url \in {Head(queue)} :
       \E filepath \in {url_to_filepath(url, DocPrefix)} :
           IF ExistsOn(disk, filepath)
           THEN IF IsFileOn(disk, filepath)
                THEN SavePage(url, filepath, disk[filepath], disk)
                ELSE Raise(url)  \* open(filepath, "r") of a directory
           ELSE IF url \notin DOMAIN web
                THEN /\ queue' = Tail(queue)  \* html is None: continue
                     /\ popped' = Append(popped, [url |-> url, got |-> FALSE])
                     /\ UNCHANGED <<disk, saved_count, visited, cpc>>
                ELSE IF BelowFileOn(disk, filepath)
                     THEN Raise(url)  \* a file is where a directory must be
                     ELSE SavePage(url, filepath, web[url],
                                   WithFile(disk, filepath, web[url]))
    /\ UNCHANGED <<web, start_urls, svars, tvars, mvars, rvars, lvars>>

\* The queue is empty: return saved_count.
Return ==
    /\ cpc = "loop"
    /\ queue = <<>>
    /\ cpc' = "done"
    /\ UNCHANGED <<web, start_urls, disk, visited, queue, saved_count, popped,
                   svars, tvars, mvars, rvars, lvars>>

InitCrawl ==
    /\ phase = "idle"
    /\ IdleScan
    /\ IdleLayout
    /\ IdleMerge
    /\ web \in Webs
    /\ start_urls \in UNION {[1..n -> SeedUrls] : n \in 1..MaxSeeds}
    /\ disk \in DiskChoices
    /\ cpc = "seed"
    /\ visited = {}
    /\ queue = <<>>
    /\ saved_count = 0
    /\ popped = <<>>
    /\ IdleReport
    /\ IdleList

NextCrawl == Seed \/ ProcessUrl \/ Return

\* The crawl is one sequential loop: it goes on while it can take a step.
SpecCrawl == InitCrawl /\ [][NextCrawl]_vars /\ WF_vars(NextCrawl)

\* The seeds as they are enqueued.
CleanSeeds == {urldefrag(start_urls[k]) : k \in 1..Len(start_urls)}

\* Every URL is enqueued and processed at most once, visited holds every URL
\* ever enqueued, and every processed URL that is no seed starts with the
\* prefix.
CrawlOnce ==
    /\ \A a, b \in 1..Len(queue) : queue[a] = queue[b] => a = b
    /\ \A a, b \in 1..Len(popped) : popped[a].url = popped[b].url => a = b
    /\ \A a \in 1..Len(queue), b \in 1..Len(popped) : queue[a] # popped[b].url
    /\ \A a \in 1..Len(queue) : queue[a] \in visited
    /\ \A b \in 1..Len(popped) :
          /\ popped[b].url \in visited
          /\ popped[b].url \in CleanSeeds \/ startswith(popped[b].url, DocPrefix)

\* The number of processed URLs whose HTML was obtained.
ObtainedCount == Cardinality({b \in 1..Len(popped) : popped[b].got})

\* Whenever crawl_and_save returns, it returns the number of processed URLs
\* whose HTML was obtained, and saved_count is that number all along.
CrawlCount == saved_count = ObtainedCount

\* The crawl comes to an end: it returns or it raises.
CrawlStops == <>(cpc \in {"done", "raised"})

\* C20: every URL is enqueued and processed at most once, every processed
\* URL other than a seed starts with the prefix, and the crawl of a finite
\* site terminates and returns the number of processed URLs whose HTML was
\* obtained.
BoundedCrawl ==
    /\ [](CrawlOnce /\ CrawlCount)
    /\ <>(cpc = "done" /\ saved_count = ObtainedCount)

\* The crawl of a site of three pages from an empty disk that raises at the
\* third page, whose file lies below the file of the second.
CrawlRaisesOnFreshDisk ==
    /\ cpc = "raised"
    /\ start_urls = <<PageRoot>>
    /\ DOMAIN web = Pages
    /\ IsFileOn(disk, IndexHtml)
    /\ IsFileOn(disk, <<"a">>)
    /\ disk[<<"a">>] = web[PageA]
    /\ Last(popped).url = PageAB

\* A crawl that returns after it fetched one page, read one from the disk and
\* failed to fetch a third.
CrawlReturnsWitness ==
    /\ cpc = "done"
    /\ saved_count = 2
    /\ Len(popped) >= 3
    /\ disk # NoFiles
    /\ \E b \in 1..Len(popped) : ~popped[b].got
(***************************************************************************)
(* Claims on the order of the scan's effects (specification SpecScan).     *)
(***************************************************************************)
\* The directories the walk enters or fails to list.
WalkedDirs ==
    {p \in DOMAIN fs : fs[p].kind = "dir" /\ Reached(p)} \cup {Root}

\* The positions in events of the summaries assigned to d and of the
\* recording of file f.
DirEvents(d) ==
    {i \in 1..Len(scan.events) :
        scan.events[i].what = "dir" /\ scan.events[i].path = d}
FileEvents(f) ==
    {i \in 1..Len(scan.events) :
        scan.events[i].what = "file" /\ scan.events[i].path = f}

\* p lies below d.
Below(p, d) == Len(p) > Len(d) /\ SubSeq(p, 1, Len(d)) = d

\* C21: post-order finalization: a directory's summary is inserted into
\* dir_summaries only after every included child file was recorded and the
\* summary of every included directory below it was inserted; the root's
\* summary is the last one inserted, and dir_summaries keeps that order.
PostOrder ==
    phase = "scanned" =>
      /\ \A d \in WalkedDirs : DirEvents(d) # {}
      /\ \A f \in CountedFiles : FileEvents(f) # {}
      /\ \A d \in WalkedDirs : \A i \in DirEvents(d) :
            /\ \A f \in CountedFiles :
                  Parent(f) = d => \A j \in FileEvents(f) : j < i
            /\ \A e \in WalkedDirs :
                  Below(e, d) => \A j \in DirEvents(e) : j < i
      /\ Last(scan.events) = [what |-> "dir", path |-> Root,
                              summary |-> Last(scan.events).summary]
      /\ Last(scan.dir_summaries).key = Root
      /\ \A a, b \in 1..Len(scan.dir_summaries) :
            a < b => \E i \in DirEvents(scan.dir_summaries[a].key) :
                       \E j \in DirEvents(scan.dir_summaries[b].key) : i < j

\* C21 witness: a scan of a directory below the root that holds a recorded
\* file and a directory of its own.
PostOrderWitness ==
    /\ phase = "scanned"
    /\ \E d \in WalkedDirs \ {Root} :
          /\ \E f \in CountedFiles : Parent(f) = d
          /\ \E e \in WalkedDirs : e # d /\ Parent(e) = d
    /\ Len(scan.events) = 4

\* C22: write-once directory stats: every walked directory is assigned in
\* dir_summaries exactly once, no other path is, and every entry still is,
\* when the scan returns, the summary it was assigned.
WriteOnce ==
    phase = "scanned" =>
      /\ \A d \in WalkedDirs : Cardinality(DirEvents(d)) = 1
      /\ \A i \in 1..Len(scan.events) :
            scan.events[i].what = "dir" =>
              /\ scan.events[i].path \in WalkedDirs
              /\ DictHas(scan.dir_summaries, scan.events[i].path)
              /\ DictGet(scan.dir_summaries, scan.events[i].path)
                    = scan.events[i].summary
              /\ scan.events[i].summary.path = scan.events[i].path
      /\ Len(scan.dir_summaries) = Cardinality(WalkedDirs)
      /\ SummaryPaths = WalkedDirs

\* C22 witness: a scan that assigned the summaries of the root, of a
\* directory with a non-empty file and of a directory it could not list.
WriteOnceWitness ==
    /\ phase = "scanned"
    /\ Len(scan.dir_summaries) = 3
    /\ \E d \in WalkedDirs : d # Root /\ fs[d].fail = "list"
    /\ \E d \in WalkedDirs :
          d # Root /\ DictGet(scan.dir_summaries, d).size_bytes > 0
(***************************************************************************)
(* Claims on the steps of the layout (specification SpecTreemap).          *)
(***************************************************************************)
\* The aspect ratio of the strip of weight r in a row of sum s laid along a
\* side: the larger of its two side ratios.
StripAspect(r, s, side) ==
    LET side2 == fmul(side, side)
    IN  QMax(fdiv(fmul(side2, r), fmul(s, s)), fdiv(fmul(s, s), fmul(side2, r)))

\* The worst aspect ratio over the strips of a row; infinite against a side
\* that is not positive.
WorstAspect(rw, side) ==
    IF QLe(side, Zero) THEN Inf
    ELSE LET s == PySum(rw)
             worst == CHOOSE i \in 1..Len(rw) :
                        \A j \in 1..Len(rw) :
                          QLe(StripAspect(rw[j], s, side),
                              StripAspect(rw[i], s, side))
         IN  StripAspect(rw[worst], s, side)

\* The weights the loop works through.
LaidWeights ==
    LET positive(v) == QLt(Zero, v)
    IN  SelectSeq(_normalize_sizes(sizes, target.w, target.h), positive)

\* One step of the loop on a row that is not empty, as the rule has it.
RowRuleStep ==
    LET cand == Head(remaining)
        side == QMin(rem.w, rem.h)
        larger == FGt(WorstAspect(Append(row, cand), side),
                      WorstAspect(row, side))
    IN  /\ remaining' = Tail(remaining)
        /\ IF ~larger
           THEN /\ row' = Append(row, cand)
                /\ UNCHANGED <<rects, rem, rows>>
           ELSE /\ row' = <<cand>>
                /\ rows' = Append(rows, row)
                /\ Len(rects') = Len(rects) + Len(row)
                /\ SubSeq(rects', 1, Len(rects)) = rects
                /\ rem' # rem
                /\ QLe(rem'.w, rem.w) /\ QLe(rem'.h, rem.h)
                /\ arith = "exact" =>
                     Area(rem') = QSub(Area(rem), QSum(row))

\* C23: row acceptance rule: a candidate joins the current non-empty row if
\* and only if the row's worst aspect ratio with it, against the shorter
\* side of the remaining rectangle, is not larger than without it;
\* otherwise the row is laid out without it, the remaining rectangle
\* shrinks by that slice and the candidate starts the next row; every weight
\* is in exactly one of the laid rows, the current row and the list still
\* to come.
RowAcceptance ==
    /\ [](/\ tpc = "loop" => Flatten(rows) \o row \o remaining = LaidWeights
          /\ tpc = "done" => Flatten(rows) = LaidWeights
          /\ Len(rects) = Len(Flatten(rows)))
    /\ [][(tpc = "loop" /\ remaining # <<>> /\ row # <<>>) => RowRuleStep]_vars

\* C23 witness: a finished layout of three weights in which the second
\* weight joined the first one's row and the third was refused.
RowAcceptanceWitness ==
    /\ tpc = "done"
    /\ Len(LaidWeights) = 3
    /\ Len(rows) = 2
    /\ Len(rows[1]) = 2
    /\ Len(rects) = 3
\* The rectangles appended to rects by the step.
NewRects == SubSeq(rects', Len(rects) + 1, Len(rects'))

\* A rectangle seen along the slice: pos and len run along the slice, at and
\* thick across it.
Along(r, horizontal) ==
    IF horizontal
    THEN [pos |-> r.x, len |-> r.w, at |-> r.y, thick |-> r.h]
    ELSE [pos |-> r.y, len |-> r.h, at |-> r.x, thick |-> r.w]

\* The row laid as one slice of the rectangle r0, in exact arithmetic: the
\* slice is sum/extent thick, the strips follow each other over the full
\* extent, each strip has its weight as area, and left is r0 without the
\* slice.
SliceExactly(rw, r0, new, left) ==
    LET horizontal == QLe(r0.h, r0.w)
        a0 == Along(r0, horizontal)
        thick == QDiv(QSum(rw), a0.len)
        s(k) == Along(new[k], horizontal)
        n == Len(rw)
    IN  /\ Len(new) = n
        /\ \A k \in 1..n : s(k).at = a0.at /\ s(k).thick = thick
        /\ s(1).pos = a0.pos
        /\ \A k \in 1..(n - 1) : s(k + 1).pos = QAdd(s(k).pos, s(k).len)
        /\ QAdd(s(n).pos, s(n).len) = QAdd(a0.pos, a0.len)
        /\ \A k \in 1..n : Area(new[k]) = rw[k]
        /\ Along(left, horizontal) =
              [pos |-> a0.pos, len |-> a0.len,
               at |-> QAdd(a0.at, thick), thick |-> QSub(a0.thick, thick)]

\* The same as the arithmetic delivers it: every quotient, sum and
\* difference rounded, the areas and the extent within rounding.
SliceRounded(rw, r0, new, left) ==
    LET horizontal == QLe(r0.h, r0.w)
        a0 == Along(r0, horizontal)
        thick == fdiv(PySum(rw), a0.len)
        s(k) == Along(new[k], horizontal)
        n == Len(rw)
    IN  /\ Len(new) = n
        /\ \A k \in 1..n : s(k).at = a0.at /\ s(k).thick = thick
        /\ s(1).pos = a0.pos
        /\ \A k \in 1..(n - 1) : s(k + 1).pos = fadd(s(k).pos, s(k).len)
        /\ CloseTo(QAdd(s(n).pos, s(n).len), QAdd(a0.pos, a0.len))
        /\ \A k \in 1..n : CloseTo(Area(new[k]), rw[k])
        /\ Along(left, horizontal) =
              [pos |-> a0.pos, len |-> a0.len,
               at |-> fadd(a0.at, thick), thick |-> fsub(a0.thick, thick)]

\* The step lays out a row.
LaysRow == Len(rows') = Len(rows) + 1

\* C24 as stated: every row is laid as a slice of thickness rowSum/extent
\* over the full remaining extent (horizontal when w >= h, vertical
\* otherwise), the strips adjacent in row order, each strip's area its
\* weight, and the remaining rectangle the input rectangle minus the slice.
RowLayout ==
    [][LaysRow => /\ rows' = Append(rows, row)
                  /\ SliceExactly(row, rem, NewRects, rem')]_vars

\* C24 amended: the same in exact arithmetic; in floating point the slice
\* thickness, the strip positions and the remaining rectangle are the
\* rounded quotient, sums and difference, and the strip areas and the
\* extent covered are within rounding of the weights and the full extent.
RowLayoutRounded ==
    [][LaysRow => /\ rows' = Append(rows, row)
                  /\ SliceRounded(row, rem, NewRects, rem')
                  /\ arith = "exact" =>
                       SliceExactly(row, rem, NewRects, rem')]_vars

\* C24 witness: a finished exact layout on a target higher than wide whose
\* first row holds two weights, laid as a vertical slice.
RowLayoutWitness ==
    /\ tpc = "done" /\ arith = "exact"
    /\ QLt(target.w, target.h)
    /\ Len(rows) >= 2
    /\ Len(rows[1]) = 2
    /\ rects[1].x = rects[2].x
    /\ rects[2].y = QAdd(rects[1].y, rects[1].h)

(***************************************************************************)
(* _group_sizes_for_treemap on any ScanResult.  The function takes the     *)
(* scan as an argument, so it also runs on a ScanResult whose totals do    *)
(* not add up: a directory recorded smaller than its child directories.    *)
(***************************************************************************)
MaxSummaryBytes == 2

\* The chains of directories a ScanResult summarises, children before parents.
SummaryChains ==
    { << Root >>,
      << << <<"a">> >>, Root >>,
      << << <<"a">>, <<"a">> >>, << <<"a">> >>, Root >> }

\* ScanResult(...) built from a chain and one recorded size per directory.
ScanResultOf(chain, bytes) ==
    [NoScan EXCEPT
       !.total_size_bytes = bytes[Len(chain)],
       !.total_dir_count = Len(chain) - 1,
       !.dir_summaries =
           [i \in 1..Len(chain) |->
               [key |-> chain[i],
                val |-> DirSummary(chain[i], bytes[i], 0, i - 1)]]]

ScanResults ==
    UNION { {ScanResultOf(chain, bytes) :
                bytes \in [1..Len(chain) -> 0..MaxSummaryBytes]} :
            chain \in SummaryChains }

InitBuckets ==
    /\ phase = "scanned"
    /\ fs = << >>
    /\ rootkind = "dir"
    /\ out = NoOutput
    /\ options = NoOptions
    /\ scan \in ScanResults
    /\ depth = 0
    /\ largest_n = DefaultLargestFiles
    /\ items = <<>>
    /\ IdleLayout
    /\ IdleMerge
    /\ IdleCrawl
    /\ IdleReport
    /\ IdleList

NextBuckets == \E D \in 0..MaxGroupDepth : Group(D)

SpecBuckets == InitBuckets /\ [][NextBuckets]_vars

\* Some directory below the root is recorded smaller than its child
\* directories together.
NegativeDirect == \E d \in SummaryPaths \ {Root} : DirectOf(d) < 0

NegativeCoerced ==
    /\ phase = "grouped"
    /\ NegativeDirect
    /\ \A d \in SummaryPaths \ {Root} :
          DirectOf(d) < 0 =>
             \A k \in 1..Len(items) : items[k].label # FilesLabel(d)


\* `if w >= h`: the row is a horizontal slice of the rectangle.
Horizontal(r) == QLe(r.h, r.w)

\* The rectangles of a row share the band the slice cut off.
InOneBand(new, horizontal) ==
    \A i, j \in 1..Len(new) :
       IF horizontal
       THEN new[i].y = new[j].y /\ new[i].h = new[j].h
       ELSE new[i].x = new[j].x /\ new[i].w = new[j].w

\* What a slice in the given direction does: the row is one band at the
\* corner of the rectangle left, and the rectangle left keeps its other side.
SlicedAs(horizontal) ==
    /\ InOneBand(NewRects, horizontal)
    /\ NewRects[1].x = rem.x /\ NewRects[1].y = rem.y
    /\ IF horizontal
       THEN rem'.x = rem.x /\ rem'.w = rem.w /\ rem'.y = fadd(rem.y, NewRects[1].h)
       ELSE rem'.y = rem.y /\ rem'.h = rem.h /\ rem'.x = fadd(rem.x, NewRects[1].w)

\* C26: within one treemap_rects call every committed row is laid out in the
\* direction fixed by the initial target, horizontal slices if w >= h there
\* and vertical slices otherwise, and every row layout keeps the relation
\* between the remaining width and height.
SliceDirection ==
    /\ [](tpc \in {"loop", "done"} => Horizontal(rem) = Horizontal(target))
    /\ [][LaysRow => /\ Horizontal(rem) = Horizontal(target)
                     /\ SlicedAs(Horizontal(target))]_vars

\* A finished layout of at least two rows on a target higher than wide.
SliceDirectionWitness ==
    /\ tpc = "done"
    /\ Len(rows) >= 2
    /\ ~Horizontal(target)
    /\ QLt(Zero, target.w)
    /\ \A k \in 1..Len(rects) : QLt(Zero, rects[k].w) /\ QLt(Zero, rects[k].h)


\* sum(d.values())
DictTotal(d) == SumSeq([i \in 1..Len(d) |-> d[i].val])

\* C27: the counters of a ScanResult agree: total_dir_count is the number of
\* entries of dir_summaries less the root's, total_file_count the sum of
\* extension_counts and total_size_bytes the sum of extension_bytes.
CountersConsistent ==
    phase = "scanned" =>
       /\ scan.total_dir_count = Len(scan.dir_summaries) - 1
       /\ scan.total_file_count = DictTotal(scan.extension_counts)
       /\ scan.total_size_bytes = DictTotal(scan.extension_bytes)

\* A scan that counted two files of one extension and a directory that could
\* not be listed.
CountersConsistentWitness ==
    /\ phase = "scanned"
    /\ scan.total_dir_count >= 1
    /\ \E k \in 1..Len(scan.extension_counts) : scan.extension_counts[k].val >= 2
    /\ \E d \in DOMAIN fs : fs[d].kind = "dir" /\ ListingFails(fs, d)
                              /\ DictHas(scan.dir_summaries, d)


(***************************************************************************)
(* _tree_lines: the tree view of the report.  A line is kept as the parts  *)
(* it is formatted from: its prefix (one "pad" or "bar" for every level    *)
(* above), its branch and its label.                                       *)
(***************************************************************************)
MaxTreeEntries == 3

\* dir_label: the name with the totals of the summary, when there is one.
dir_label(sc, path) ==
    IF DictHas(sc.dir_summaries, path)
    THEN LET summ == DictGet(sc.dir_summaries, path)
         IN  [name |-> Last(path), size |-> summ.size_bytes,
              files |-> summ.file_count, dirs |-> summ.dir_count]
    ELSE [name |-> Last(path)]

\* file_label: the name with the size, or with <unreadable> when stat raises.
file_label(tree, path) ==
    IF tree[path].fail = "stat"
    THEN [name |-> Last(path), unreadable |-> TRUE]
    ELSE [name |-> Last(path), size |-> tree[path].size]

\* The children of a directory as walk lists them: the directories by
\* recorded size, then the files by size, both largest first; entries that
\* should_skip names, that is_dir or is_file raises on, or that are neither
\* a directory nor a file under follow_symlinks are left out.
TreeChildren(tree, sc, opts, current) ==
    LET entries == ScanDir(tree, current)
        listed(p) == /\ ~should_skip(opts, p)
                     /\ tree[p].fail # "inspect"
                     /\ ~skips_link(opts, tree[p])
        is_dir(p) == listed(p) /\ tree[p].kind = "dir"
        is_file(p) == listed(p) /\ tree[p].kind = "file"
        dirs == SelectSeq(entries, is_dir)
        files == SelectSeq(entries, is_file)
        dir_size(p) == IF DictHas(sc.dir_summaries, p)
                       THEN DictGet(sc.dir_summaries, p).size_bytes ELSE 0
        file_size(p) == IF tree[p].fail = "stat" THEN 0 ELSE tree[p].size
        sorted_dirs == SortedDesc([k \in 1..Len(dirs) |->
                           [k |-> dir_size(dirs[k]), v |-> dirs[k]]])
        sorted_files == SortedDesc([k \in 1..Len(files) |->
                           [k |-> file_size(files[k]), v |-> files[k]]])
    IN  [k \in 1..Len(sorted_dirs) |-> [path |-> sorted_dirs[k], is_dir |-> TRUE]]
          \o [k \in 1..Len(sorted_files) |->
                [path |-> sorted_files[k], is_dir |-> FALSE]]

\* lines.append(...); emitted += 1
emit(st, line) ==
    [lines |-> Append(st.lines, line), emitted |-> st.emitted + 1]

RECURSIVE walk(_, _, _, _, _, _, _, _, _), WalkChildren(_, _, _, _, _, _, _, _, _, _)
\* The for loop of walk without the test of emitted at the top of each
\* iteration.
WalkChildrenUnchecked(tree, sc, opts, D, M, prefix, level, children, idx, st) ==
    IF idx > Len(children) THEN st
    ELSE
      LET child == children[idx].path
          last == idx = Len(children)
          branch == IF last THEN "last" ELSE "mid"
          next_prefix == Append(prefix, IF last THEN "pad" ELSE "bar")
      IN  IF children[idx].is_dir
          THEN LET st1 == emit(st, [kind |-> "dir", prefix |-> prefix,
                                    branch |-> branch,
                                    label |-> dir_label(sc, child)])
                   st2 == IF D <= 0 \/ level + 1 < D
                          THEN walk(tree, sc, opts, D, M, child, next_prefix,
                                    level + 1, st1)
                          ELSE st1
               IN  WalkChildren(tree, sc, opts, D, M, prefix, level, children,
                                idx + 1, st2)
          ELSE WalkChildren(tree, sc, opts, D, M, prefix, level, children,
                            idx + 1,
                            emit(st, [kind |-> "file", prefix |-> prefix,
                                      branch |-> branch,
                                      label |-> file_label(tree, child)]))

\* The for loop of walk over children, from the idx-th on; st holds the
\* enclosing lines and emitted.
WalkChildren(tree, sc, opts, D, M, prefix, level, children, idx, st) ==
    IF idx > Len(children) THEN st
    ELSE IF st.emitted >= M THEN st
    ELSE
      LET child == children[idx].path
          last == idx = Len(children)
          branch == IF last THEN "last" ELSE "mid"
          next_prefix == Append(prefix, IF last THEN "pad" ELSE "bar")
      IN  IF children[idx].is_dir
          THEN LET st1 == emit(st, [kind |-> "dir", prefix |-> prefix,
                                    branch |-> branch,
                                    label |-> dir_label(sc, child)])
                   st2 == IF D <= 0 \/ level + 1 < D
                          THEN walk(tree, sc, opts, D, M, child, next_prefix,
                                    level + 1, st1)
                          ELSE st1
               IN  WalkChildren(tree, sc, opts, D, M, prefix, level, children,
                                idx + 1, st2)
          ELSE WalkChildren(tree, sc, opts, D, M, prefix, level, children,
                            idx + 1,
                            emit(st, [kind |-> "file", prefix |-> prefix,
                                      branch |-> branch,
                                      label |-> file_label(tree, child)]))

walk(tree, sc, opts, D, M, current, prefix, level, st) ==
    IF st.emitted >= M THEN st
    ELSE IF ListingFails(tree, current)
      THEN emit(st, [kind |-> "unreadable", prefix |-> prefix])
    ELSE WalkChildren(tree, sc, opts, D, M, prefix, level,
                      TreeChildren(tree, sc, opts, current), 1, st)

\* The truncation marker.
TruncatedLine == [kind |-> "truncated"]

_tree_lines(tree, sc, opts, D, M) ==
    LET header == IF DictHas(sc.dir_summaries, Root)
                  THEN LET summ == DictGet(sc.dir_summaries, Root)
                       IN  [kind |-> "root", size |-> summ.size_bytes,
                            files |-> summ.file_count, dirs |-> summ.dir_count]
                  ELSE [kind |-> "root"]
        st == walk(tree, sc, opts, D, M, Root, <<>>, 0,
                   [lines |-> <<header>>, emitted |-> 0])
    IN  IF st.emitted >= M THEN Append(st.lines, TruncatedLine) ELSE st.lines

\* _build_markdown_report asks for the tree view of the scanned root.
TreeLines(D, M) ==
    /\ phase = "scanned"
    /\ tree_depth' = D
    /\ tree_max_entries' = M
    /\ lines' = _tree_lines(fs, scan, options, D, M)
    /\ phase' = "reported"
    /\ UNCHANGED <<fs, rootkind, out, options, scan, depth, largest_n, items,
                   tvars, mvars, cvars, lvars>>

\* The files and directories the tree view is drawn over.
TreeFileShapes ==
    {[size |-> 1, link |-> FALSE, fail |-> "none"],
     [size |-> 2, link |-> TRUE, fail |-> "none"],
     [size |-> 2, link |-> FALSE, fail |-> "stat"],
     [size |-> 1, link |-> FALSE, fail |-> "inspect"]}
TreeDirShapes ==
    {[link |-> FALSE, fail |-> "none"], [link |-> FALSE, fail |-> "list"]}
TreeOptions == {o \in ScanOptions : o.ignore_globs = <<>>}

NextTree ==
    \/ \E parent \in DOMAIN fs \cup {Root} :
         \E name \in NamesIn(parent), f \in TreeFileShapes :
            CreateFile(parent, name, f)
    \/ \E parent \in DOMAIN fs \cup {Root} :
         \E name \in NamesIn(parent), d \in TreeDirShapes :
            CreateDir(parent, name, d)
    \/ \E opts \in TreeOptions : Scan(opts, DefaultLargestFiles)
    \/ \E D \in 0..MaxGroupDepth, M \in 0..MaxTreeEntries : TreeLines(D, M)

SpecTree == InitScan /\ [][NextTree]_vars

\* The entry lines of the tree view: directory, file and [unreadable] lines.
EntryLines == {k \in 1..Len(lines) : lines[k].kind \in {"dir", "file", "unreadable"}}
TruncationMarkers == {k \in 1..Len(lines) : lines[k] = TruncatedLine}

\* C28: for max_entries >= 0 the tree view has at most max_entries entry
\* lines below the root header, and the truncation marker is appended, once
\* and as the last line, exactly when the number of entry lines has reached
\* max_entries.
TreeEntryCap ==
    phase = "reported" =>
       /\ lines[1].kind = "root"
       /\ Cardinality(EntryLines) <= tree_max_entries
       /\ (TruncationMarkers # {}) = (Cardinality(EntryLines) >= tree_max_entries)
       /\ TruncationMarkers \subseteq {Len(lines)}
       /\ Len(lines) = 1 + Cardinality(EntryLines) + Cardinality(TruncationMarkers)

\* A tree of more entries than the cap, cut inside a subdirectory: the view
\* has two entry lines, the second one level down, and the marker.
TreeEntryCapWitness ==
    /\ phase = "reported"
    /\ tree_max_entries = 2
    /\ Cardinality(DOMAIN fs) = 3
    /\ Cardinality(EntryLines) = 2
    /\ \E k \in EntryLines : lines[k].prefix # <<>>
    /\ lines[Len(lines)] = TruncatedLine

\* A view that shows the whole tree, without the marker.
TreeWholeWitness ==
    /\ phase = "reported"
    /\ Cardinality(EntryLines) = 2
    /\ Cardinality(EntryLines) < tree_max_entries
    /\ TruncationMarkers = {}


(***************************************************************************)
(* The file list of the merger windows (FileMergerApp and                  *)
(* ChunkedFileMergerApp have the same handlers).  A path is the sequence   *)
(* of its names and separators; list indices are Python's, from 0.         *)
(***************************************************************************)
MaxPaths == 2

\* The working directory, and the files there are.
Cwd == <<"d">>
ListFiles ==
    { <<"/", "d", "/", "a">>, <<"/", "d", "/", "b">>, <<"/", "e", "/", "a">> }
\* What the dialog or a drop hands over: absolute and relative spellings of
\* the files, a directory and a path that does not exist.
PathChoices ==
    ListFiles \cup { <<"a">>, <<".", "/", "b">>,
                     <<"/", "e", "/", "..", "/", "d", "/", "a">>,
                     <<"/", "d">>, <<"c">> }

RECURSIVE NormParts(_, _)
\* os.path.normpath on the names of a path: ".." drops the name before it.
NormParts(done, rest) ==
    IF rest = <<>> THEN done
    ELSE IF Head(rest) = ".."
         THEN NormParts(IF done = <<>> THEN <<>>
                        ELSE SubSeq(done, 1, Len(done) - 1), Tail(rest))
         ELSE NormParts(Append(done, Head(rest)), Tail(rest))

\* os.path.abspath: the path below the working directory unless it starts
\* at the root, without "." names, ".." names and doubled separators.
abspath(p) ==
    LET name(x) == x \notin {"/", "."}
        names == SelectSeq(p, name)
        parts == NormParts(<<>>, IF p # <<>> /\ Head(p) = "/"
                                 THEN names ELSE Cwd \o names)
    IN  IF parts = <<>> THEN <<"/">>
        ELSE Flatten([k \in 1..Len(parts) |-> <<"/", parts[k]>>])

\* os.path.basename: what follows the last separator.
basename(p) ==
    LET seps == {k \in 1..Len(p) : p[k] = "/"}
        cut == IF seps = {} THEN 0 ELSE CHOOSE k \in seps : \A m \in seps : m <= k
    IN  SubSeq(p, cut + 1, Len(p))

\* os.path.isfile
isfile(p) == p \in ListFiles

InList(fl, p) == \E k \in 1..Len(fl) : fl[k] = p

\* One iteration of _add_paths that appends without looking p up in the list.
add_path_always(w, path) ==
    LET p == abspath(path) IN
    IF isfile(p)
    THEN [file_list |-> Append(w.file_list, p),
          listbox |-> Append(w.listbox, basename(p))]
    ELSE w

\* One iteration of the loop of _add_paths on w = [file_list, listbox].
add_path(w, path) ==
    LET p == abspath(path) IN
    IF ~InList(w.file_list, p) /\ isfile(p)
    THEN [file_list |-> Append(w.file_list, p),
          listbox |-> Append(w.listbox, basename(p))]
    ELSE w

RECURSIVE add_paths_loop(_, _)
add_paths_loop(w, paths) ==
    IF paths = <<>> THEN w
    ELSE add_paths_loop(add_path(w, Head(paths)), Tail(paths))

_add_paths(paths) ==
    /\ phase = "idle"
    /\ \E w \in {add_paths_loop([file_list |-> file_list, listbox |-> listbox],
                                paths)} :
          /\ file_list' = w.file_list
          /\ listbox' = w.listbox
    /\ last_op' = Ran("_add_paths", 0)
    /\ UNCHANGED <<selection, word_limit, mpc, next_file, chunks,
                   chunk_word_counts, written, svars, tvars, cvars, rvars>>

clear_all ==
    /\ phase = "idle"
    /\ file_list' = <<>>
    /\ listbox' = <<>>
    /\ selection' = {}
    /\ last_op' = Ran("clear_all", 0)
    /\ UNCHANGED <<word_limit, mpc, next_file, chunks, chunk_word_counts,
                   written, svars, tvars, cvars, rvars>>

\* The user selects rows of the listbox (selectmode EXTENDED: any rows).
SelectRows(S) ==
    /\ phase = "idle"
    /\ S \subseteq 0..(Len(listbox) - 1)
    /\ selection' = S
    /\ last_op' = Ran("select", 0)
    /\ UNCHANGED <<file_list, listbox, word_limit, mpc, next_file, chunks,
                   chunk_word_counts, written, svars, tvars, cvars, rvars>>

RECURSIVE curselection(_)
\* listbox.curselection(): the selected indices in increasing order.
curselection(S) ==
    IF S = {} THEN <<>>
    ELSE LET least == CHOOSE k \in S : \A m \in S : k <= m
         IN  <<least>> \o curselection(S \ {least})

\* del seq[i]
DelAt(seq, i) == SubSeq(seq, 1, i) \o SubSeq(seq, i + 2, Len(seq))

RECURSIVE DelEach(_, _)
\* for i in reversed(sel): del seq[i]
DelEach(seq, sel) ==
    IF sel = <<>> THEN seq
    ELSE DelEach(DelAt(seq, sel[Len(sel)]), SubSeq(sel, 1, Len(sel) - 1))

remove_selected ==
    /\ phase = "idle"
    /\ IF selection = {}
       THEN UNCHANGED <<file_list, listbox, selection>>
       ELSE /\ file_list' = DelEach(file_list, curselection(selection))
            /\ listbox' = DelEach(listbox, curselection(selection))
            /\ selection' = {}
    /\ last_op' = Ran("remove_selected", 0)
    /\ UNCHANGED <<word_limit, mpc, next_file, chunks, chunk_word_counts,
                   written, svars, tvars, cvars, rvars>>

\* seq[i], seq[j] = seq[j], seq[i]
SwapAt(seq, i, j) ==
    [k \in 1..Len(seq) |->
        IF k = i + 1 THEN seq[j + 1] ELSE IF k = j + 1 THEN seq[i + 1] ELSE seq[k]]

RECURSIVE move_loop(_, _, _)
\* for i in sel: swap file_list[i] and file_list[i + delta] when in range
move_loop(fl, sel, delta) ==
    IF sel = <<>> THEN fl
    ELSE LET a == Head(sel)
             j == a + delta
         IN  move_loop(IF 0 <= j /\ j < Len(fl) THEN SwapAt(fl, a, j) ELSE fl,
                       Tail(sel), delta)

\* _rebuild_listbox: the rows are the basenames of the list.
_rebuild_listbox(fl) == [k \in 1..Len(fl) |-> basename(fl[k])]

\* move_selected that leaves the rows of the listbox as they are.
move_selected_no_rebuild(delta) ==
    /\ phase = "idle"
    /\ LET sel == curselection(selection)
       IN  IF sel = <<>> \/ sel[1] + delta < 0 \/ sel[1] + delta >= Len(file_list)
           THEN UNCHANGED <<file_list, listbox, selection>>
           ELSE /\ file_list' = move_loop(file_list, sel, delta)
                /\ listbox' = listbox
                /\ selection' = {k + delta : k \in selection}
                                   \cap (0..(Len(listbox) - 1))
    /\ last_op' = Ran("move_selected", delta)
    /\ UNCHANGED <<word_limit, mpc, next_file, chunks, chunk_word_counts,
                   written, svars, tvars, cvars, rvars>>

move_selected(delta) ==
    /\ phase = "idle"
    /\ LET sel == curselection(selection)
       IN  IF sel = <<>> \/ sel[1] + delta < 0 \/ sel[1] + delta >= Len(file_list)
           THEN UNCHANGED <<file_list, listbox, selection>>
           ELSE /\ file_list' = move_loop(file_list, sel, delta)
                /\ listbox' = _rebuild_listbox(move_loop(file_list, sel, delta))
                /\ selection' = {k + delta : k \in selection}
                                   \cap (0..(Len(file_list) - 1))
    /\ last_op' = Ran("move_selected", delta)
    /\ UNCHANGED <<word_limit, mpc, next_file, chunks, chunk_word_counts,
                   written, svars, tvars, cvars, rvars>>

InitList ==
    /\ phase = "idle"
    /\ IdleScan
    /\ IdleLayout
    /\ IdleMerge
    /\ IdleCrawl
    /\ IdleReport
    /\ IdleList

NextList ==
    \/ \E paths \in UNION {[1..n -> PathChoices] : n \in 1..MaxPaths} :
          _add_paths(paths)
    \/ clear_all
    \/ \E S \in SUBSET (0..(Len(listbox) - 1)) : SelectRows(S)
    \/ remove_selected
    \/ \E delta \in {-1, 1} : move_selected(delta)

SpecList == InitList /\ [][NextList]_vars

\* The paths of a list, as a set.
PathsOf(fl) == {fl[k] : k \in 1..Len(fl)}

\* C29: after any sequence of _add_paths, remove_selected, move_selected and
\* clear_all, file_list holds no path twice, the listbox has as many rows as
\* file_list and its i-th row is the basename of file_list[i], and
\* move_selected only permutes file_list.
ListInSync ==
    /\ \A a, b \in 1..Len(file_list) : file_list[a] = file_list[b] => a = b
    /\ Len(listbox) = Len(file_list)
    /\ \A k \in 1..Len(file_list) : listbox[k] = basename(file_list[k])
    /\ selection \subseteq 0..(Len(listbox) - 1)
    /\ last_op.name = "move_selected" =>
          /\ Len(file_list) = Len(last_op.before)
          /\ PathsOf(file_list) = PathsOf(last_op.before)

\* Three files are listed, two of them of one basename, and a move of two
\* selected rows has just changed their order.
ListInSyncWitness ==
    /\ Len(file_list) = 3
    /\ \E a, b \in 1..3 : a # b /\ listbox[a] = listbox[b]
    /\ last_op.name = "move_selected"
    /\ Cardinality(last_op.sel) = 2
    /\ file_list # last_op.before

\* move_selected went past its guards: some row is selected and the first
\* selected index + delta is in range.
Moved ==
    /\ last_op.name = "move_selected"
    /\ last_op.sel # {}
    /\ \E first \in last_op.sel :
          /\ \A k \in last_op.sel : first <= k
          /\ 0 <= first + last_op.delta
          /\ first + last_op.delta < Len(last_op.before)

\* The files at the given indices of a list, in list order.
FilesAt(fl, S) ==
    LET at == curselection(S \cap (0..(Len(fl) - 1)))
    IN  [k \in 1..Len(at) |-> fl[at[k] + 1]]

\* C30: after move_selected with delta -1 or +1 and the first selected
\* index + delta in range, every selected file sits at its old index +
\* delta, the unselected files keep their relative order, and the restored
\* selection, the old indices + delta, designates the files that were
\* selected before.
MoveShiftsBlock ==
    Moved =>
       LET before == last_op.before
           sel == last_op.sel
           rest == (0..(Len(before) - 1)) \ sel
       IN  /\ \A k \in sel :
                /\ k + last_op.delta < Len(file_list)
                /\ file_list[k + last_op.delta + 1] = before[k + 1]
           /\ FilesAt(file_list, (0..(Len(file_list) - 1)) \ selection)
                 = FilesAt(before, rest)
           /\ selection = {k + last_op.delta : k \in sel}
           /\ FilesAt(file_list, selection) = FilesAt(before, sel)

\* The moves that do shift the block: any move up, and a move down of a
\* single row.
MoveShiftsBlockUpOrSingle ==
    (Moved /\ (last_op.delta = -1 \/ Cardinality(last_op.sel) = 1))
       => MoveShiftsBlock

\* A move up of two selected rows has shifted both.
MoveUpWitness ==
    /\ Moved
    /\ last_op.delta = -1
    /\ Cardinality(last_op.sel) = 2
    /\ file_list # last_op.before

\* A move down of two adjacent selected rows: the first file went to the end
\* of the block and the selection now designates another file.
MoveDownBroken ==
    /\ Moved
    /\ last_op.delta = 1
    /\ last_op.sel = {0, 1}
    /\ Len(file_list) = 3
    /\ file_list[3] = last_op.before[1]
    /\ selection = {1, 2}

====
